---- MODULE Spec2Model ----
(***************************************************************************)
(* Pirate Cities: trading ships between cities with supply/demand prices.  *)
(*                                                                         *)
(* The Python program computes with floats.  The model computes with       *)
(* integers in fixed units, rounding down:                                 *)
(*   gold and prices   1/GoldScale gold  (prices: per whole ton)           *)
(*   city stock        1/TonScale ton    (ship cargo: whole tons, the code *)
(*                                        truncates it with int())         *)
(*   population        1/PopScale person                                   *)
(***************************************************************************)
EXTENDS Integers, Sequences, FiniteSets, TLC

GoldScale == 1000
TonScale == 1000
PopScale == 10
\* resolution of the fixed-point fractions (exp, ratios)
FP == 10000

Min(a, b) == IF a <= b THEN a ELSE b
Max(a, b) == IF a >= b THEN a ELSE b
Abs(a) == IF a >= 0 THEN a ELSE 0 - a
\* Python's int(a / b): truncation toward zero (b > 0)
TruncDiv(a, b) == IF a >= 0 THEN a \div b ELSE 0 - ((0 - a) \div b)
\* a division rounded down: the fault the waiting-time property must catch
FloorDiv(a, b) == a \div b

\* math.ceil(a / b) for a >= 0, b > 0
CeilDiv(a, b) == (a + b - 1) \div b

RECURSIVE ISqrtIn(_, _, _)
ISqrtIn(n, lo, hi) ==
    IF lo >= hi THEN lo
    ELSE LET mid == (lo + hi + 1) \div 2
         IN  IF mid * mid <= n THEN ISqrtIn(n, mid, hi) ELSE ISqrtIn(n, lo, mid - 1)
\* floor of the square root, the ** 0.5 of the code
ISqrt(n) == ISqrtIn(n, 0, 46340)

RECURSIVE ExpTerms(_, _, _, _)
ExpTerms(y, k, term, acc) ==
    IF k > 14 \/ term = 0 THEN acc
    ELSE LET t == TruncDiv(term * y, k * FP)
         IN  ExpTerms(y, k + 1, t, acc + t)
\* exp(y / FP) * FP by its power series
ExpFP(y) == ExpTerms(y, 1, FP, FP)

SeqToSet(s) == {s[i] : i \in 1..Len(s)}

(***************************************************************************)
(* resource.py, city.py: the catalogue and the economic constants          *)
(***************************************************************************)
ResourceName == <<"food", "goods", "luxuries", "cannons">>
Resources == SeqToSet(ResourceName)

\* gold per ton, in 1/GoldScale gold
BASE_RESOURCE_PRICE_IN_GOLD == [food |-> 3, goods |-> 5, luxuries |-> 10, cannons |-> 1]
\* 1e-6 gold is below the model's resolution: the floor is the smallest positive price
PriceMin == 1
PriceMax == 200 * GoldScale
\* fixed fee of one fact
CITY_INFORMATION_PRICE_IN_GOLD == 100 * GoldScale
INITIAL_CAPACITY == 100
\* per unit of gold / ton of stock, in 1/100
CAPACITY_SCALES == [gold |-> 15, food |-> 60, goods |-> 7, luxuries |-> 15, cannons |-> 3]
\* np.exp(-GROWTH_RATE_PER_DAY * DAYS_PER_ITERATION) = exp(-0.5), in 1/1000
ExpNegGrowth == 607
\* tons per capita per day, in 1/10000
CONSUMPTION_TONS_PER_CAPITA_PER_DAY == [food |-> 63, goods |-> 25, luxuries |-> 10, cannons |-> 1]
INITIAL_PRODUCTION_TONS_PER_CAPITA_PER_DAY == [food |-> 30, goods |-> 10, luxuries |-> 0, cannons |-> 0]
\* ln(10) * 1000, for 10 ** x = exp(x * ln 10)
Ln10 == 2303

(***************************************************************************)
(* City: the derived quantities.  c is a live city or a snapshot of one    *)
(* (copy(city)); both carry gold, stock, base_population and cache.        *)
(***************************************************************************)
EmptyCache == [frozen |-> FALSE, base_capacity |-> 0, capacity |-> 0, population |-> 0]

\* 10 ** (-food / 1_000) * FP
Pow10NegFood(food) == ExpFP(0 - ((food * Ln10) \div (100 * TonScale)))

base_capacity(c) ==
    IF c.cache.frozen THEN c.cache.base_capacity
    ELSE (INITIAL_CAPACITY * PopScale * FP) \div (FP + Pow10NegFood(c.stock["food"]))

\* sum(self[resource] * CAPACITY_SCALES[resource]), in 1/1000
CapacitySum(c) ==
    (c.gold * CAPACITY_SCALES["gold"]
     + c.stock["food"] * CAPACITY_SCALES["food"]
     + c.stock["goods"] * CAPACITY_SCALES["goods"]
     + c.stock["luxuries"] * CAPACITY_SCALES["luxuries"]
     + c.stock["cannons"] * CAPACITY_SCALES["cannons"]) \div 100

capacity(c) ==
    IF c.cache.frozen THEN c.cache.capacity
    ELSE (base_capacity(c) * (1000 + CapacitySum(c))) \div 1000

\* a logistic formula that lost its "- 1": the fault the population property must catch
populationUndamped(c) ==
    IF c.cache.frozen THEN c.cache.population
    ELSE LET cap == capacity(c)
             ratio == (cap * 1000) \div c.base_population
             denom == 1000 + (ratio * ExpNegGrowth) \div 1000
         IN  (cap * 1000) \div denom

population(c) ==
    IF c.cache.frozen THEN c.cache.population
    ELSE LET cap == capacity(c)
             ratio == (cap * 1000) \div c.base_population
             denom == 1000 + ((ratio - 1000) * ExpNegGrowth) \div 1000
         IN  (cap * 1000) \div denom

demand(c, r) == (population(c) * CONSUMPTION_TONS_PER_CAPITA_PER_DAY[r]) \div 100
supply(c, r) == c.stock[r]
production(c, r) == (population(c) * INITIAL_PRODUCTION_TONS_PER_CAPITA_PER_DAY[r]) \div 100

\* an excess that offers the whole stock: the fault the no-depletion property must catch
excess_supplyWholeStock(c, r) == Max(0, supply(c, r))

\* EXCESS_SUPPLY_FRACTION = 0.8
excess_supply(c, r) == Max(0, (8 * (supply(c, r) - demand(c, r))) \div 10)

\* base * (demand / supply) ** 0.5, before clipping; demand > 0, supply > 0
RawPrice(base, d, s) ==
    LET q == (d * FP) \div s
    IN  IF q <= 20000000 THEN base * ISqrt(q * 100)
        ELSE base * 10 * ISqrt(q)

\* a price that is not clipped: the fault the price-range property must catch
priceUnclipped(c, r) ==
    IF demand(c, r) <= 0 THEN PriceMin
    ELSE IF supply(c, r) <= 0 THEN PriceMax
    ELSE RawPrice(BASE_RESOURCE_PRICE_IN_GOLD[r], demand(c, r), supply(c, r))

price(c, r) ==
    IF demand(c, r) <= 0 THEN PriceMin
    ELSE IF supply(c, r) <= 0 THEN PriceMax
    ELSE Max(PriceMin, Min(PriceMax,
             RawPrice(BASE_RESOURCE_PRICE_IN_GOLD[r], demand(c, r), supply(c, r))))

(***************************************************************************)
(* City: the state.  A city is the record                                  *)
(*   [name, location, base_population, gold, stock, recency_in_iterations, *)
(*    information, cache];                                                 *)
(* information is the dict name -> snapshot, kept as the sequence of its   *)
(* values in insertion order (the order a Python dict iterates in).        *)
(* copy(city) is a shallow copy: the scalar fields are copied, the         *)
(* information dict is shared with the live city.  A snapshot is therefore *)
(* the record without the information field, and its information is what   *)
(* the live city of that name holds when it is read.                       *)
(***************************************************************************)
Copy(c) ==
    [name |-> c.name, location |-> c.location, base_population |-> c.base_population,
     gold |-> c.gold, stock |-> c.stock,
     recency_in_iterations |-> c.recency_in_iterations, cache |-> c.cache]

\* the attribute of a ship before its first assignment
Unset ==
    [name |-> "", location |-> <<0, 0>>, base_population |-> 0, gold |-> 0,
     stock |-> [r \in Resources |-> 0], recency_in_iterations |-> 0, cache |-> EmptyCache]

\* position of the entry for name in an information dict, 0 when there is none
InfoIndex(info, name) ==
    IF \E i \in 1..Len(info) : info[i].name = name
    THEN CHOOSE i \in 1..Len(info) : info[i].name = name
    ELSE 0

\* information[name] = snap
InfoPut(info, snap) ==
    IF InfoIndex(info, snap.name) > 0
    THEN [info EXCEPT ![InfoIndex(info, snap.name)] = snap]
    ELSE Append(info, snap)

\* a sort that leaves the order as it is: the fault the priority property must catch
Unsorted(s) == s

\* sorted(items, key = k, reverse = True): descending and stable
RECURSIVE SortDesc(_)
SortDesc(s) ==
    IF Len(s) <= 1 THEN s
    ELSE LET m == CHOOSE i \in 1..Len(s) :
                      /\ \A j \in 1..Len(s) : s[j].k <= s[i].k
                      /\ \A j \in 1..(i - 1) : s[j].k < s[i].k
             rest == [j \in 1..(Len(s) - 1) |-> IF j < m THEN s[j] ELSE s[j + 1]]
         IN  <<s[m]>> \o SortDesc(rest)

\* np.inf as a priority
InfPriority == 1000000

\* {source_city.name: source_city} | source_city.information
CityInfos(source, sourceInformation) ==
    LET i == InfoIndex(sourceInformation, source.name)
    IN  <<IF i > 0 THEN sourceInformation[i] ELSE source>>
        \o SelectSeq(sourceInformation, LAMBDA x : x.name # source.name)

\* a gap that takes older facts for newer ones: the fault the only-newer property must catch
RecencyDiffAbs(buyer, x) ==
    LET i == InfoIndex(buyer.information, x.name)
    IN  IF i = 0 THEN InfPriority
        ELSE Abs(x.recency_in_iterations - buyer.information[i].recency_in_iterations)

\* the recency gap of a candidate fact, np.inf when the buyer has no copy
RecencyDiff(buyer, x) ==
    LET i == InfoIndex(buyer.information, x.name)
    IN  IF i = 0 THEN InfPriority
        ELSE x.recency_in_iterations - buyer.information[i].recency_in_iterations

\* a selection that also takes facts no newer than the stored ones: the fault the
\* idempotence property must catch
CityInfoRecencyDiffOrEqual(buyer, infos) ==
    SortDesc(SelectSeq([j \in 1..Len(infos) |-> [k |-> RecencyDiff(buyer, infos[j]), v |-> infos[j]]],
                       LAMBDA p : p.k >= 0))

\* the facts worth buying, most outdated first
CityInfoRecencyDiff(buyer, infos) ==
    SortDesc(SelectSeq([j \in 1..Len(infos) |-> [k |-> RecencyDiff(buyer, infos[j]), v |-> infos[j]]],
                       LAMBDA p : p.k > 0))

RECURSIVE BuyInfoLoopOnCredit(_, _, _, _)
\* a purchase loop that never looks at the purse: the fault the no-debt property must catch
BuyInfoLoopOnCredit(buyer, todo, i, paid) ==
    IF i > Len(todo)
    THEN [city |-> buyer, price_in_gold |-> paid]
    ELSE BuyInfoLoopOnCredit([buyer EXCEPT !.information = InfoPut(@, Copy(todo[i].v)),
                                           !.gold = @ - CITY_INFORMATION_PRICE_IN_GOLD],
                             todo, i + 1, paid + CITY_INFORMATION_PRICE_IN_GOLD)

RECURSIVE BuyInfoLoop(_, _, _, _)
BuyInfoLoop(buyer, todo, i, paid) ==
    IF i > Len(todo) \/ buyer.gold < CITY_INFORMATION_PRICE_IN_GOLD
    THEN [city |-> buyer, price_in_gold |-> paid]
    ELSE BuyInfoLoop([buyer EXCEPT !.information = InfoPut(@, Copy(todo[i].v)),
                                   !.gold = @ - CITY_INFORMATION_PRICE_IN_GOLD],
                     todo, i + 1, paid + CITY_INFORMATION_PRICE_IN_GOLD)

\* City.buy_city_info: the buyer after the call and the gold it paid
buy_city_info(buyer, source, sourceInformation) ==
    BuyInfoLoop(buyer, CityInfoRecencyDiff(buyer, CityInfos(source, sourceInformation)), 1, 0)

\* a freeze that caches nothing: the fault the one-population-per-step property must catch
freezeNothing(c) == c

\* City.freeze
freeze(c) ==
    [c EXCEPT !.cache = [frozen |-> TRUE, base_capacity |-> base_capacity(c),
                         capacity |-> capacity(c), population |-> population(c)]]

\* a step that keeps its cache: the fault the empty-cache property must catch
unfreezeForgotten(c) == c

unfreeze(c) == [c EXCEPT !.cache = EmptyCache]

\* the consume-and-produce loop of City.step over ResourceName[i..]
RECURSIVE ConsumeProduce(_, _)
ConsumeProduce(c, i) ==
    IF i > Len(ResourceName) THEN c
    ELSE LET r == ResourceName[i]
             resource_diff == production(c, r) - demand(c, r)
         IN  ConsumeProduce([c EXCEPT !.stock[r] = supply(c, r) + resource_diff], i + 1)

\* base_population *= (1 + GROWTH_RATE_PER_DAY * (1 - population / capacity)) * DAYS_PER_ITERATION
Reproduce(c) ==
    LET room == ((capacity(c) - population(c)) * 1000) \div capacity(c)
    IN  [c EXCEPT !.base_population = @ + (@ * room) \div 2000]

\* City.step
city_step(c) ==
    LET grown == unfreeze(Reproduce(ConsumeProduce(freeze(c), 1)))
    IN  [grown EXCEPT !.recency_in_iterations = @ + 1]

(***************************************************************************)
(* ship.py: the ship catalogue                                             *)
(***************************************************************************)
MIN_SHIP_SPEED_IN_KM_PER_DAY == 1
ShipSpeed ==
    [VERY_SLOW |-> MIN_SHIP_SPEED_IN_KM_PER_DAY, SLOW |-> 2 * MIN_SHIP_SPEED_IN_KM_PER_DAY,
     MODERATE |-> 3 * MIN_SHIP_SPEED_IN_KM_PER_DAY, FAST |-> 4 * MIN_SHIP_SPEED_IN_KM_PER_DAY,
     VERY_FAST |-> 5 * MIN_SHIP_SPEED_IN_KM_PER_DAY]

Spec3(speed, hold, cannons) ==
    [speed |-> ShipSpeed[speed], max_cargo_hold_in_tons |-> hold, max_cannons |-> cannons]

\* ShipSpec.from_type, one entry per ShipType
ShipSpecTable ==
    [WAR_CANOE |-> Spec3("VERY_FAST", 20, 8), PINNACE |-> Spec3("VERY_FAST", 25, 10),
     MAIL_RUNNER |-> Spec3("VERY_FAST", 30, 12), SLOOP |-> Spec3("FAST", 40, 12),
     SLOOP_OF_WAR |-> Spec3("FAST", 50, 16), ROYAL_SLOOP |-> Spec3("FAST", 60, 20),
     BRIGANTINE |-> Spec3("MODERATE", 60, 20), BRIG |-> Spec3("MODERATE", 80, 24),
     BRIG_OF_WAR |-> Spec3("MODERATE", 80, 32), COASTAL_BARQUE |-> Spec3("SLOW", 60, 12),
     BARQUE |-> Spec3("SLOW", 70, 16), OCEAN_BARQUE |-> Spec3("SLOW", 80, 16),
     FLUYT |-> Spec3("VERY_SLOW", 80, 8), LARGE_FLUYT |-> Spec3("VERY_SLOW", 100, 12),
     WEST_INDIANMAN |-> Spec3("VERY_SLOW", 120, 16), MERCHANTMAN |-> Spec3("SLOW", 100, 16),
     LARGE_MERCHANTMAN |-> Spec3("SLOW", 120, 20), EAST_INDIANMAN |-> Spec3("SLOW", 140, 20),
     FAST_GALLEON |-> Spec3("SLOW", 80, 24), WAR_GALLEON |-> Spec3("SLOW", 90, 32),
     FLAG_GALLEON |-> Spec3("SLOW", 100, 40), FRIGATE |-> Spec3("FAST", 80, 32),
     LARGE_FRIGATE |-> Spec3("FAST", 90, 40), SHIP_OF_THE_LINE |-> Spec3("FAST", 100, 48)]

ShipType == DOMAIN ShipSpecTable
from_type(ship_type) == ShipSpecTable[ship_type]

AT_SEA == "At Sea"
ARRIVED_AT_PORT == "Arrived at Port"
WAITING_FOR_DEPARTURE == "Waiting for Departure"
ShipState == {AT_SEA, ARRIVED_AT_PORT, WAITING_FOR_DEPARTURE}

(***************************************************************************)
(* Ship.  A ship is the record                                             *)
(*   [name, ship_spec, start, route, agenda, current_stop_index,           *)
(*    destination, location, state, waiting_iterations_remaining,          *)
(*    iterations_en_route, cargo, sold_cargo, gold, owner_info,            *)
(*    destination_info];                                                   *)
(* start, destination and the route entries are references to live cities, *)
(* held as city names; current_stop_index counts from 0 as in the code.    *)
(* The operations of a ship work on st = [cities, ship]: the cities of the *)
(* simulation and the ship itself.                                         *)
(***************************************************************************)
NoCargo == [r \in Resources |-> 0]

\* a clear_cargo that forgets the gold: the fault the credit-home property must catch
clear_cargo_keeping_gold(ship) == [ship EXCEPT !.sold_cargo = NoCargo, !.cargo = NoCargo]

\* Ship.clear_cargo
clear_cargo(ship) == [ship EXCEPT !.sold_cargo = NoCargo, !.cargo = NoCargo, !.gold = 0]

\* a route taken as given: the fault the return-home property must catch
ItineraryAsGiven(start, route) == route

\* Ship.set_itinerary: the route with home appended when it does not end there
Itinerary(start, route) ==
    IF route[Len(route)] # start THEN Append(route, start) ELSE route

\* Ship.__init__
NewShip(name, ship_type, start, startLocation, route, agenda) ==
    [name |-> name, ship_spec |-> from_type(ship_type), start |-> start,
     route |-> Itinerary(start, route), agenda |-> agenda, current_stop_index |-> 0,
     destination |-> Itinerary(start, route)[1], location |-> startLocation,
     state |-> WAITING_FOR_DEPARTURE, waiting_iterations_remaining |-> 0,
     iterations_en_route |-> 0, cargo |-> NoCargo, sold_cargo |-> NoCargo, gold |-> 0,
     owner_info |-> Unset, destination_info |-> Unset]

\* Ship.set_itinerary on a ship, route not empty
set_itinerary(ship, start, route, agenda) ==
    [ship EXCEPT !.route = Itinerary(start, route), !.agenda = agenda, !.current_stop_index = 0,
                 !.destination = Itinerary(start, route)[1]]

\* a catalogue with an entry for everything: the fault the construction property must catch
KnownShipTypeAny(ship_type) == TRUE

\* ShipSpec.from_type: the match has a case for ship_type
KnownShipType(ship_type) == ship_type \in ShipType

\* the exception Ship.__init__ ends with, "" when it returns: from_type raises ValueError
\* in its default case, set_itinerary IndexError at route[-1] of an empty route
InitRaises(ship_type, route) ==
    IF ~KnownShipType(ship_type) THEN "ValueError"
    ELSE IF route = <<>> THEN "IndexError"
    ELSE ""

\* Ship.total_cargo_in_tons
total_cargo_in_tons(ship) ==
    ship.cargo["food"] + ship.cargo["goods"] + ship.cargo["luxuries"] + ship.cargo["cannons"]

\* a remaining hold that ignores what is aboard: the fault the capacity property must catch
RemainingCargoHoldIgnoringCargo(ship) == ship.ship_spec.max_cargo_hold_in_tons

\* max_cargo_hold_in_tons - total_cargo_in_tons
RemainingCargoHold(ship) == ship.ship_spec.max_cargo_hold_in_tons - total_cargo_in_tons(ship)

\* Point2d.distance_to, squared
DistanceSquared(a, b) == (a[1] - b[1]) * (a[1] - b[1]) + (a[2] - b[2]) * (a[2] - b[2])

\* a move one unit short of the speed: the fault the travel property must catch
MoveTowardsSlow(loc, dest, speed) ==
    LET distance == ISqrt(DistanceSquared(loc, dest))
    IN  <<loc[1] + TruncDiv((dest[1] - loc[1]) * (speed - 1), distance),
          loc[2] + TruncDiv((dest[2] - loc[2]) * (speed - 1), distance)>>

\* location += direction * (speed / distance)
MoveTowards(loc, dest, speed) ==
    LET distance == ISqrt(DistanceSquared(loc, dest))
    IN  <<loc[1] + TruncDiv((dest[1] - loc[1]) * speed, distance),
          loc[2] + TruncDiv((dest[2] - loc[2]) * speed, distance)>>

\* a travel without its state guard: the fault the state-cycle property must catch
TravellingAlways(ship) == TRUE

\* _travel, line 330: travel acts on a ship at sea
Travelling(ship) == ship.state = AT_SEA

\* Ship._travel
travel(st) ==
    LET ship == st.ship
        dest_loc == st.cities[ship.destination].location
    IN  IF ~Travelling(ship) THEN st
        ELSE IF DistanceSquared(ship.location, dest_loc) > ship.ship_spec.speed * ship.ship_spec.speed
        THEN [st EXCEPT !.ship.iterations_en_route = @ + 1,
                        !.ship.location = MoveTowards(ship.location, dest_loc, ship.ship_spec.speed)]
        ELSE [st EXCEPT !.ship.iterations_en_route = @ + 1,
                        !.ship.location = dest_loc,
                        !.ship.state = ARRIVED_AT_PORT]

\* the resources as sort items [k |-> key[resource], v |-> resource], in ResourceName order
Keyed(key) == [i \in 1..Len(ResourceName) |-> [k |-> key[ResourceName[i]], v |-> ResourceName[i]]]

\* the loading loop of _load_cargo_to_sell over the sorted excesses todo[i..]
RECURSIVE LoadLoop(_, _, _)
LoadLoop(st, todo, i) ==
    IF i > Len(todo) THEN st
    ELSE LET resource == todo[i].v
             excess_supply_in_tons == todo[i].k
             remaining_cargo_hold_in_tons == RemainingCargoHold(st.ship)
             loaded == Min(excess_supply_in_tons \div TonScale, remaining_cargo_hold_in_tons)
         IN  IF remaining_cargo_hold_in_tons <= 0 \/ excess_supply_in_tons <= 0 THEN st
             ELSE LoadLoop([st EXCEPT !.ship.cargo[resource] = loaded,
                                      !.cities[st.ship.start].stock[resource] = @ - loaded * TonScale],
                           todo, i + 1)

\* a working capital of up to three times the owner's gold: the fault the non-negativity
\* property must catch
WorkingCapitalTenfold(gold, percent) == TruncDiv(3 * percent * gold, 100 * GoldScale) * GoldScale

\* int(0.3 * random.random() * gold), random.random() = percent / 100
WorkingCapital(gold, percent) == TruncDiv(3 * percent * gold, 10 * 100 * GoldScale) * GoldScale

\* Ship._load_cargo_to_sell
load_cargo_to_sell(st, percent) ==
    LET start == st.cities[st.ship.start]
        loaded == LoadLoop(st, SortDesc(Keyed([r \in Resources |-> excess_supply(start, r)])), 1)
        capital == WorkingCapital(loaded.cities[st.ship.start].gold, percent)
    IN  [loaded EXCEPT !.ship.gold = capital,
                       !.cities[st.ship.start].gold = @ - capital]

\* Ship._depart
depart(st, percent) ==
    LET ship == st.ship
        next == ship.route[ship.current_stop_index + 1]
    IN  IF ship.state # WAITING_FOR_DEPARTURE THEN st
        ELSE IF ship.waiting_iterations_remaining > 0
        THEN [st EXCEPT !.ship.waiting_iterations_remaining = @ - 1]
        ELSE load_cargo_to_sell(
                 [st EXCEPT !.ship.destination = next,
                            !.ship.state = AT_SEA,
                            !.ship.iterations_en_route = 0,
                            !.ship.destination_info = Copy(st.cities[next]),
                            !.ship.owner_info = Copy(st.cities[ship.start])],
                 percent)

\* Ship.get_resource_names_ordered_by_margin
get_resource_names_ordered_by_margin(st) ==
    SortDesc(Keyed([r \in Resources |-> price(st.cities[st.ship.destination], r) - price(st.ship.owner_info, r)]))

\* a sale that does not ask what the destination can pay: the fault the default-sale
\* property must catch
RECURSIVE SellLoopUncapped(_, _, _)
SellLoopUncapped(st, order, i) ==
    IF i > Len(order) THEN st
    ELSE LET resource == order[i].v
             dest == st.ship.destination
             price_in_gold_per_ton == price(st.cities[dest], resource)
             cargo_sold_in_tons == st.ship.cargo[resource]
             earnings_in_gold == cargo_sold_in_tons * price_in_gold_per_ton
         IN  SellLoopUncapped([st EXCEPT !.ship.cargo[resource] = @ - cargo_sold_in_tons,
                                         !.cities[dest].stock[resource] = @ + cargo_sold_in_tons * TonScale,
                                         !.ship.gold = @ + earnings_in_gold,
                                         !.cities[dest].gold = @ - earnings_in_gold],
                              order, i + 1)

\* the loop of _sell_cargo_at_destination over order[i..]
RECURSIVE SellLoop(_, _, _)
SellLoop(st, order, i) ==
    IF i > Len(order) THEN st
    ELSE LET resource == order[i].v
             dest == st.ship.destination
             price_in_gold_per_ton == price(st.cities[dest], resource)
             cargo_sold_in_tons ==
                 TruncDiv(Min(st.ship.cargo[resource] * price_in_gold_per_ton, st.cities[dest].gold),
                          price_in_gold_per_ton)
             earnings_in_gold == cargo_sold_in_tons * price_in_gold_per_ton
         IN  SellLoop([st EXCEPT !.ship.cargo[resource] = @ - cargo_sold_in_tons,
                                 !.cities[dest].stock[resource] = @ + cargo_sold_in_tons * TonScale,
                                 !.ship.gold = @ + earnings_in_gold,
                                 !.cities[dest].gold = @ - earnings_in_gold],
                      order, i + 1)

\* Ship._sell_cargo_at_destination
sell_cargo_at_destination(st) == SellLoop(st, get_resource_names_ordered_by_margin(st), 1)

\* Ship.cargo_to_buy: the owner's positive demands, int(demand) tons, highest first
cargo_to_buy(ship) ==
    SortDesc(SelectSeq(Keyed([r \in Resources |-> IF demand(ship.owner_info, r) > 0
                                                  THEN demand(ship.owner_info, r) \div TonScale
                                                  ELSE 0 - 1]),
                       LAMBDA p : p.k >= 0))

\* the tons of one default purchase: int(min(remaining, min(gold, min(amount, excess) * price) / price))
AmountToBuy(remaining, gold, amount_in_tons, excess, price_in_gold_per_ton) ==
    Min(remaining, Min(gold \div price_in_gold_per_ton, Min(amount_in_tons, excess \div TonScale)))

\* the loop of _buy_cargo_at_destination over todo[i..]
RECURSIVE BuyLoop(_, _, _)
BuyLoop(st, todo, i) ==
    IF i > Len(todo) THEN st
    ELSE LET resource == todo[i].v
             dest == st.cities[st.ship.destination]
             remaining_cargo_hold_in_tons == RemainingCargoHold(st.ship)
             price_in_gold_per_ton == price(dest, resource)
             amount_to_buy_in_tons ==
                 AmountToBuy(remaining_cargo_hold_in_tons, st.ship.gold, todo[i].k,
                             excess_supply(dest, resource), price_in_gold_per_ton)
         IN  IF remaining_cargo_hold_in_tons <= 0 \/ st.ship.gold <= 0 THEN st
             ELSE BuyLoop([st EXCEPT !.ship.cargo[resource] = @ + amount_to_buy_in_tons,
                                     !.ship.gold = @ - amount_to_buy_in_tons * price_in_gold_per_ton],
                          todo, i + 1)

\* Ship._buy_cargo_at_destination
buy_cargo_at_destination(st) == BuyLoop(st, cargo_to_buy(st.ship), 1)

(***************************************************************************)
(* The agenda maps a city name to its orders.  agenda[city] is the record  *)
(*   [present, hasSell, sell, hasBuy, buy]:                                *)
(* present: city_name in agenda; hasSell: "sell" in agenda[city_name];     *)
(* sell and buy: the orders in dict order, each [resource, amount, none],  *)
(* none standing for an amount of None (sell all / buy without target).    *)
(***************************************************************************)
NoOrders == [present |-> FALSE, hasSell |-> FALSE, sell |-> <<>>, hasBuy |-> FALSE, buy |-> <<>>]

\* a sale that does not ask what the destination can pay: the fault the agenda-sale
\* property must catch
RECURSIVE AgendaSellLoopUncapped(_, _, _)
AgendaSellLoopUncapped(st, orders, i) ==
    IF i > Len(orders) THEN st
    ELSE LET resource == orders[i].resource
             dest == st.ship.destination
             available == st.ship.cargo[resource]
             to_sell == IF orders[i].none THEN available ELSE Min(available, orders[i].amount)
             price_in_gold == price(st.cities[dest], resource)
         IN  IF available <= 0 THEN AgendaSellLoopUncapped(st, orders, i + 1)
             ELSE AgendaSellLoopUncapped(
                      [st EXCEPT !.ship.cargo[resource] = @ - to_sell,
                                 !.cities[dest].stock[resource] = @ + to_sell * TonScale,
                                 !.ship.gold = @ + to_sell * price_in_gold,
                                 !.cities[dest].gold = @ - to_sell * price_in_gold,
                                 !.ship.sold_cargo[resource] = to_sell],
                      orders, i + 1)

\* the loop of _sell_per_agenda over orders[i..]
RECURSIVE AgendaSellLoop(_, _, _)
AgendaSellLoop(st, orders, i) ==
    IF i > Len(orders) THEN st
    ELSE LET resource == orders[i].resource
             dest == st.ship.destination
             available == st.ship.cargo[resource]
             to_sell == IF orders[i].none THEN available ELSE Min(available, orders[i].amount)
             price_in_gold == price(st.cities[dest], resource)
             actual_earnings == Min(to_sell * price_in_gold, st.cities[dest].gold)
             actual_sold == TruncDiv(actual_earnings, price_in_gold)
         IN  IF available <= 0 THEN AgendaSellLoop(st, orders, i + 1)
             ELSE AgendaSellLoop(
                      [st EXCEPT !.ship.cargo[resource] = @ - actual_sold,
                                 !.cities[dest].stock[resource] = @ + actual_sold * TonScale,
                                 !.ship.gold = @ + actual_sold * price_in_gold,
                                 !.cities[dest].gold = @ - actual_sold * price_in_gold,
                                 !.ship.sold_cargo[resource] = actual_sold],
                      orders, i + 1)

\* Ship._sell_per_agenda
sell_per_agenda(st, city_name) == AgendaSellLoop(st, st.ship.agenda[city_name].sell, 1)

\* [self.destination, *self._route[self._current_stop_index + 1:]]
RemainingCities(ship) ==
    <<ship.destination>> \o SubSeq(ship.route, ship.current_stop_index + 2, Len(ship.route))

\* a look-ahead that sees this stop only: the fault the cheapest-stop property must catch
MinFuturePriceHere(st, resource) == price(st.cities[st.ship.destination], resource)

\* min(c.price(resource) for c in remaining_cities)
MinFuturePrice(st, resource) ==
    LET remaining_cities == RemainingCities(st.ship)
        future_prices == {price(st.cities[remaining_cities[j]], resource) : j \in 1..Len(remaining_cities)}
    IN  CHOOSE m \in future_prices : \A x \in future_prices : m <= x

\* the loop of _buy_per_agenda over orders[i..]
RECURSIVE AgendaBuyLoop(_, _, _)
AgendaBuyLoop(st, orders, i) ==
    IF i > Len(orders) THEN st
    ELSE LET resource == orders[i].resource
             dest == st.ship.destination
             already == st.ship.cargo[resource]
             need == Max(0, orders[i].amount - already)
             current_price == price(st.cities[dest], resource)
             remaining_capacity == RemainingCargoHold(st.ship)
             supplier == excess_supply(st.cities[dest], resource)
             amount_available ==
                 Min(Min(IF orders[i].none THEN remaining_capacity ELSE need, supplier \div TonScale),
                     remaining_capacity)
             max_affordable == st.ship.gold \div current_price
             buy_amount == Min(amount_available, max_affordable)
         IN  IF ~orders[i].none /\ need <= 0 THEN AgendaBuyLoop(st, orders, i + 1)
             ELSE IF current_price > MinFuturePrice(st, resource) THEN AgendaBuyLoop(st, orders, i + 1)
             ELSE IF remaining_capacity <= 0 THEN st
             ELSE IF buy_amount <= 0 THEN AgendaBuyLoop(st, orders, i + 1)
             ELSE AgendaBuyLoop(
                      [st EXCEPT !.ship.cargo[resource] = @ + buy_amount,
                                 !.ship.gold = @ - buy_amount * current_price,
                                 !.cities[dest].stock[resource] = @ - buy_amount * TonScale],
                      orders, i + 1)

\* Ship._buy_per_agenda
buy_per_agenda(st, city_name) == AgendaBuyLoop(st, st.ship.agenda[city_name].buy, 1)

\* Ship._arrive_home
arrive_home(st) ==
    LET start == st.ship.start
        credited == [st.cities[start] EXCEPT
                        !.gold = @ + st.ship.gold,
                        !.stock = [r \in Resources |-> @[r] + st.ship.cargo[r] * TonScale]]
        source == st.ship.destination_info
        bought == buy_city_info(credited, source, st.cities[source.name].information)
    IN  [st EXCEPT !.ship = clear_cargo(@),
                   !.cities[start] = [bought.city EXCEPT !.gold = @ + bought.price_in_gold]]

\* _handle_arrival, lines 390-392: refresh the snapshots
RefreshInfo(st) ==
    [st EXCEPT !.ship.destination_info = Copy(st.cities[st.ship.destination]),
               !.ship.owner_info = Copy(st.cities[st.ship.start])]

\* if self._location == self._start.location
IsHome(st) == st.ship.location = st.cities[st.ship.start].location

\* _handle_arrival, lines 407-413: sell per agenda, or by margin
ArrivalSell(st) ==
    LET city_name == st.ship.destination
        reset == [st EXCEPT !.ship.sold_cargo = NoCargo]
    IN  IF st.ship.agenda[city_name].present /\ st.ship.agenda[city_name].hasSell
        THEN sell_per_agenda(reset, city_name)
        ELSE sell_cargo_at_destination(reset)

\* _handle_arrival, lines 415-420: buy per agenda, or by the owner's demand
ArrivalBuy(st) ==
    LET city_name == st.ship.destination
    IN  IF st.ship.agenda[city_name].present /\ st.ship.agenda[city_name].hasBuy
        THEN buy_per_agenda(st, city_name)
        ELSE buy_cargo_at_destination(st)

\* an information sale that never reaches the ship's purse: the fault the fee property must catch
ArrivalSellInfoUncredited(st) ==
    [st EXCEPT !.cities[st.ship.destination] =
                   buy_city_info(@, st.ship.owner_info, st.cities[st.ship.owner_info.name].information).city]

\* _handle_arrival, lines 422-423: the destination pays the ship for the owner's information
ArrivalSellInfo(st) ==
    LET dest == st.ship.destination
        bought == buy_city_info(st.cities[dest], st.ship.owner_info,
                                st.cities[st.ship.owner_info.name].information)
    IN  [st EXCEPT !.cities[dest] = bought.city,
                   !.ship.gold = @ + bought.price_in_gold]

\* sum(abs(self._cargo[r] - cargo_before[r]) for r in ResourceName)
TotalCargoMoved(cargo, cargo_before) ==
    Abs(cargo["food"] - cargo_before["food"]) + Abs(cargo["goods"] - cargo_before["goods"])
    + Abs(cargo["luxuries"] - cargo_before["luxuries"]) + Abs(cargo["cannons"] - cargo_before["cannons"])

\* a next destination read before the route index is advanced: the fault the route-order
\* property must catch
ArrivalFinishStale(st, cargo_before, movable_cargo_in_tons_per_day) ==
    LET ship == st.ship
    IN  [st EXCEPT !.ship.waiting_iterations_remaining =
                        CeilDiv(TotalCargoMoved(ship.cargo, cargo_before), movable_cargo_in_tons_per_day),
                   !.ship.state = WAITING_FOR_DEPARTURE,
                   !.ship.current_stop_index = @ + 1,
                   !.ship.destination = ship.route[ship.current_stop_index + 1]]

\* _handle_arrival, lines 425-442: the waiting time and the next destination
ArrivalFinish(st, cargo_before, movable_cargo_in_tons_per_day) ==
    LET ship == st.ship
        advanced == IF ship.current_stop_index < Len(ship.route)
                    THEN ship.current_stop_index + 1 ELSE ship.current_stop_index
    IN  [st EXCEPT !.ship.waiting_iterations_remaining =
                        CeilDiv(TotalCargoMoved(ship.cargo, cargo_before), movable_cargo_in_tons_per_day),
                   !.ship.state = WAITING_FOR_DEPARTURE,
                   !.ship.current_stop_index = advanced,
                   !.ship.destination = IF advanced < Len(ship.route)
                                        THEN ship.route[advanced + 1] ELSE ship.start]

\* Ship._handle_arrival
handle_arrival(st, movable_cargo_in_tons_per_day) ==
    IF st.ship.state # ARRIVED_AT_PORT THEN st
    ELSE IF IsHome(RefreshInfo(st))
    THEN [arrive_home(RefreshInfo(st)) EXCEPT !.ship.waiting_iterations_remaining = 0]
    ELSE ArrivalFinish(ArrivalSellInfo(ArrivalBuy(ArrivalSell(RefreshInfo(st)))),
                       st.ship.cargo, movable_cargo_in_tons_per_day)

\* Ship.step
ship_step(st, movable_cargo_in_tons_per_day, percent) ==
    depart(handle_arrival(travel(st), movable_cargo_in_tons_per_day), percent)

(***************************************************************************)
(* Simulation: the world and the stepping loop                             *)
(***************************************************************************)
\* bound of the run: the number of Simulation.step() calls
MaxIter == 6

\* self.cities, in list order
CityOrder == <<"A", "B", "C">>
CityNames == SeqToSet(CityOrder)

\* the draws of random.uniform(*MOVABLE_CARGO_RANGE_IN_TONS_PER_DAY), Range(10, 50)
MovableCargoDraws == {10, 50}
\* the draws of random.random(), in percent
RandomDraws == {0, 99}

VARIABLES
    cities,     \* Simulation.cities: name -> City
    ships,      \* Simulation.ships: the list of Ship
    iteration,  \* completed Simulation.step() calls
    pc,         \* position in the two loops of Simulation.step(): the next entry to step
    log,        \* per ship, what its last step and its current trip did (history)
    calls       \* the number of step() calls made so far on each ship and each city (history)

vars == <<cities, ships, iteration, pc, log, calls>>

NShips == Len(ships)
NCities == Len(CityOrder)

\* a city stepped inside the loop over the ships: the fault the ordering property must catch
CityTurnEarly(j) == pc = j

\* for ship in self.ships: the i-th ship is stepped when the loop stands at i
ShipTurn(i) == pc = i
\* for city in self.cities: runs after the loop over the ships
CityTurn(j) == pc = NShips + j

NewCity(name, location, base_population, gold, food, goods, luxuries, cannons) ==
    [name |-> name, location |-> location, base_population |-> base_population * PopScale,
     gold |-> gold * GoldScale,
     stock |-> [food |-> food * TonScale, goods |-> goods * TonScale,
                luxuries |-> luxuries * TonScale, cannons |-> cannons * TonScale],
     recency_in_iterations |-> 0, information |-> <<>>, cache |-> EmptyCache]

Order(resource, amount, none) == [resource |-> resource, amount |-> amount, none |-> none]

\* the agendas a ship is built with: none, or orders for the stop B
Agendas ==
    { [n \in CityNames |-> NoOrders],
      [n \in CityNames |->
          IF n = "B" THEN [present |-> TRUE, hasSell |-> TRUE, sell |-> <<Order("goods", 0, TRUE)>>,
                           hasBuy |-> TRUE, buy |-> <<Order("food", 10, FALSE)>>]
          ELSE NoOrders],
      [n \in CityNames |->
          IF n = "B" THEN [present |-> TRUE, hasSell |-> TRUE, sell |-> <<Order("goods", 6, FALSE)>>,
                           hasBuy |-> TRUE, buy |-> <<Order("food", 0, TRUE), Order("cannons", 1, FALSE)>>]
          ELSE NoOrders] }

\* the history of a ship: trace and acted describe its last step() (the states before
\* travel, handle_arrival, depart and after, and which of the three changed anything);
\* the rest describes its current trip
NoLog ==
    [trace |-> <<WAITING_FOR_DEPARTURE, WAITING_FOR_DEPARTURE, WAITING_FOR_DEPARTURE, WAITING_FOR_DEPARTURE>>,
     acted |-> <<FALSE, FALSE, FALSE>>,
     arrivals |-> 0, processed |-> 0, home_arrivals |-> 0,
     hold_before_buy |-> 0, gold_before_buy |-> 0, bought |-> NoCargo, sold |-> NoCargo,
     loaded_out |-> NoCargo, owner_change |-> NoCargo,
     visited |-> Unset, brought_home |-> [cargo |-> NoCargo, gold |-> 0],
     info_sale |-> [made |-> FALSE, destination |-> "", owner |-> "",
                    destination_gold |-> 0, destination_paid |-> 0, ship_received |-> 0,
                    owner_known |-> FALSE]]

Init ==
    /\ \E goldB \in {0, 1000}, goldC \in {0, 1000} :
          cities = [n \in CityNames |->
                      IF n = "A" THEN NewCity("A", <<0, 0>>, 1000, 500, 100, 50, 20, 5)
                      ELSE IF n = "B" THEN NewCity("B", <<4, 0>>, 200, goldB, 80, 10, 0, 0)
                      ELSE NewCity("C", <<4, 3>>, 50, goldC, 20, 100, 0, 2)]
    /\ \E type1 \in {"SLOOP"}, agenda2 \in Agendas :
          ships = << NewShip("Le Vengeur", type1, "A", <<0, 0>>, <<"B">>, [n \in CityNames |-> NoOrders]),
                     NewShip("La Sirene", "BRIGANTINE", "C", <<4, 3>>, <<"B", "A">>, agenda2) >>
    /\ iteration = 0
    /\ pc = 1
    /\ log = [i \in 1..2 |-> NoLog]
    /\ calls = [ships |-> [i \in 1..2 |-> 0], cities |-> [n \in CityNames |-> 0]]

\* what the sell and buy of a non-home arrival did: the ship before the sale,
\* between sale and purchase, and after the purchase
TradeLog(old, beforeSell, beforeBuy, afterBuy) ==
    [old EXCEPT
        !.hold_before_buy = total_cargo_in_tons(beforeBuy.ship),
        !.gold_before_buy = beforeBuy.ship.gold,
        !.bought = [r \in Resources |-> afterBuy.ship.cargo[r] - beforeBuy.ship.cargo[r]],
        !.sold = [r \in Resources |-> beforeSell.ship.cargo[r] - beforeBuy.ship.cargo[r]],
        !.visited = beforeSell.ship.destination_info]

\* what the information sale of a non-home arrival did: the gold the destination had and
\* paid, the gold the ship received, and whether the destination then knows the owner
InfoSaleLog(old, beforeSale, afterSale) ==
    LET dest == beforeSale.ship.destination
    IN  [old EXCEPT
            !.info_sale =
                [made |-> TRUE, destination |-> dest, owner |-> beforeSale.ship.owner_info.name,
                 destination_gold |-> beforeSale.cities[dest].gold,
                 destination_paid |-> beforeSale.cities[dest].gold - afterSale.cities[dest].gold,
                 ship_received |-> afterSale.ship.gold - beforeSale.ship.gold,
                 owner_known |->
                     InfoIndex(afterSale.cities[dest].information, beforeSale.ship.owner_info.name) > 0]]

TradeLogAfter(old, beforeSell, beforeBuy, afterBuy) ==
    InfoSaleLog(TradeLog(old, beforeSell, beforeBuy, afterBuy), afterBuy, ArrivalSellInfo(afterBuy))

TradeLogFrom(old, beforeSell, beforeBuy) == TradeLogAfter(old, beforeSell, beforeBuy, ArrivalBuy(beforeBuy))

\* the owner's stock change made by the step, added to the trip's
OwnerLog(old, fromHome, change, loaded) ==
    [old EXCEPT
        !.loaded_out = IF fromHome THEN [r \in Resources |-> loaded[r] \div TonScale] ELSE @,
        !.owner_change = IF fromHome THEN change ELSE [r \in Resources |-> @[r] + change[r]]]

\* what one step of a ship did: st0 -travel-> st1 -handle_arrival-> st2 -depart-> st3
StepLog(old, st0, st1, st2, st3) ==
    LET home == st0.ship.start
        arrived == st1.ship.state = ARRIVED_AT_PORT
        atHome == arrived /\ IsHome(st1)
        departed == st2.ship.state = WAITING_FOR_DEPARTURE /\ st3.ship.state = AT_SEA
        fromHome == departed /\ st2.ship.location = st2.cities[home].location
        counted ==
            [old EXCEPT
                !.trace = <<st0.ship.state, st1.ship.state, st2.ship.state, st3.ship.state>>,
                !.acted = <<st1 # st0, st2 # st1, st3 # st2>>,
                !.arrivals = IF st0.ship.state = AT_SEA /\ arrived THEN @ + 1 ELSE @,
                !.processed = IF arrived THEN @ + 1 ELSE @,
                !.home_arrivals = IF atHome THEN @ + 1 ELSE @,
                !.brought_home = IF atHome /\ old.home_arrivals = 0
                                 THEN [cargo |-> st1.ship.cargo, gold |-> st1.ship.gold] ELSE @]
        traded == IF arrived /\ ~atHome
                  THEN TradeLogFrom(counted, RefreshInfo(st1), ArrivalSell(RefreshInfo(st1)))
                  ELSE counted
    IN  OwnerLog(traded, fromHome,
                 [r \in Resources |-> st3.cities[home].stock[r] - st0.cities[home].stock[r]],
                 [r \in Resources |-> st2.cities[home].stock[r] - st3.cities[home].stock[r]])

\* for ship in self.ships: ship.step()
ShipStep(i) ==
    /\ iteration < MaxIter
    /\ ShipTurn(i)
    /\ \E rate \in MovableCargoDraws, percent \in RandomDraws :
          \E st0 \in {[cities |-> cities, ship |-> ships[i]]} :
          \E st1 \in {travel(st0)} :
          \E st2 \in {handle_arrival(st1, rate)} :
          \E st3 \in {depart(st2, percent)} :
              /\ cities' = st3.cities
              /\ ships' = [ships EXCEPT ![i] = st3.ship]
              /\ log' = [log EXCEPT ![i] = StepLog(log[i], st0, st1, st2, st3)]
    /\ calls' = [calls EXCEPT !.ships[i] = @ + 1]
    /\ pc' = pc + 1
    /\ UNCHANGED iteration

\* for city in self.cities: city.step()
CityStep(j) ==
    /\ iteration < MaxIter
    /\ CityTurn(j)
    /\ cities' = [cities EXCEPT ![CityOrder[j]] = city_step(@)]
    /\ pc' = IF j = NCities THEN 1 ELSE pc + 1
    /\ iteration' = IF j = NCities THEN iteration + 1 ELSE iteration
    /\ calls' = [calls EXCEPT !.cities[CityOrder[j]] = @ + 1]
    /\ UNCHANGED <<ships, log>>

\* Simulation.step, one entry of its loops at a time
Next ==
    \/ \E i \in 1..NShips : ShipStep(i)
    \/ \E j \in 1..NCities : CityStep(j)

Spec == Init /\ [][Next]_vars

(***************************************************************************)
(* Properties                                                              *)
(***************************************************************************)
Ships == 1..NShips

\* C1: in every Simulation.step() every ship's step() runs, in the order of the ships
\* list, strictly before any city's step(): within iteration k no city has made its
\* (k+1)-th step while some ship has not, and no ship has while an earlier ship has not.
C1_ShipsStepBeforeCities ==
    /\ \A i \in Ships : calls.ships[i] \in {iteration, iteration + 1}
    /\ \A n \in CityNames : calls.cities[n] \in {iteration, iteration + 1}
    /\ \A i, j \in Ships : i < j /\ calls.ships[j] = iteration + 1 => calls.ships[i] = iteration + 1
    /\ \A j, k \in 1..NCities :
          j < k /\ calls.cities[CityOrder[k]] = iteration + 1 => calls.cities[CityOrder[j]] = iteration + 1
    /\ \A n \in CityNames, i \in Ships :
          calls.cities[n] = iteration + 1 => calls.ships[i] = iteration + 1

\* the owner of ship 1 has just stepped, after that ship took cargo from its stock in
\* the same iteration
C1_Witness ==
    /\ pc = NShips + 2
    /\ calls.cities["A"] = iteration + 1
    /\ log[1].trace[3] = WAITING_FOR_DEPARTURE /\ log[1].trace[4] = AT_SEA
    /\ log[1].loaded_out["food"] > 0

\* the edge of the state cycle made by the k-th part of step(): travel, handle_arrival, depart
CycleEdge(k) ==
    IF k = 1 THEN <<AT_SEA, ARRIVED_AT_PORT>>
    ELSE IF k = 2 THEN <<ARRIVED_AT_PORT, WAITING_FOR_DEPARTURE>>
    ELSE <<WAITING_FOR_DEPARTURE, AT_SEA>>

C3_ArrivedIsTransient ==
    \A i \in Ships :
        /\ ships[i].state # ARRIVED_AT_PORT
        /\ log[i].processed = log[i].arrivals

\* what drives a ship through the cycle
NavFields(ship) ==
    <<ship.state, ship.location, ship.waiting_iterations_remaining,
      ship.current_stop_index, ship.destination>>

\* no step() of the ship, whatever it draws, changes its state, place, counter or goal
Terminal(i) ==
    \A rate \in MovableCargoDraws, percent \in RandomDraws :
        NavFields(ship_step([cities |-> cities, ship |-> ships[i]], rate, percent).ship)
            = NavFields(ships[i])

\* C4: no ship state is terminal: in every reachable state the next step() of a ship
\* moves it on (it travels, is handled, counts down or departs); in particular a ship
\* that has returned home departs again.
C4_NoTerminalState == \A i \in Ships : ~Terminal(i)

\* a ship left in ARRIVED_AT_PORT at its home
ArrivedAtHome(i) ==
    /\ ships[i].state = ARRIVED_AT_PORT
    /\ ships[i].location = cities[ships[i].start].location

\* the terminal states are exactly those of a ship left in ARRIVED_AT_PORT at home
TerminalIsArrivedAtHome == \A i \in Ships : Terminal(i) <=> ArrivedAtHome(i)

\* and such a ship is there after every later step of the simulation
ArrivedAtHomeIsForever == [][\A i \in Ships : ArrivedAtHome(i) => ArrivedAtHome(i)']_vars

\* C5: the total tons in a ship's hold never exceed the capacity of its spec, and a
\* default buy or an agenda buy made with the hold at capacity adds zero tons,
\* whatever the ship's gold and the agenda's target.
C5_HoldWithinCapacity ==
    \A i \in Ships :
        /\ total_cargo_in_tons(ships[i]) <= ships[i].ship_spec.max_cargo_hold_in_tons
        /\ \A r \in Resources : ships[i].cargo[r] >= 0
        /\ log[i].hold_before_buy = ships[i].ship_spec.max_cargo_hold_in_tons =>
              \A r \in Resources : log[i].bought[r] = 0

\* both kinds of buy were made with a full hold and gold to spend: ship 1 by the owner's
\* demand, ship 2 by its agenda for B
C5_Witness ==
    /\ log[1].processed >= 1
    /\ log[1].hold_before_buy = ships[1].ship_spec.max_cargo_hold_in_tons
    /\ log[1].gold_before_buy > 0
    /\ log[2].processed >= 1
    /\ ships[2].agenda["B"].hasBuy
    /\ log[2].hold_before_buy = ships[2].ship_spec.max_cargo_hold_in_tons
    /\ log[2].gold_before_buy > 0

RECURSIVE SumOver(_, _)
\* the sum of f over the finite set S
SumOver(f, S) ==
    IF S = {} THEN 0
    ELSE LET x == CHOOSE y \in S : TRUE IN f[x] + SumOver(f, S \ {x})

\* all the gold there is: in the cities and aboard the ships
TotalGold ==
    SumOver([n \in CityNames |-> cities[n].gold], CityNames)
    + SumOver([i \in Ships |-> ships[i].gold], Ships)

\* all there is of a resource, in 1/TonScale ton: in the cities' stocks and in the holds
TotalStock(r) ==
    SumOver([n \in CityNames |-> cities[n].stock[r]], CityNames)
    + SumOver([i \in Ships |-> ships[i].cargo[r] * TonScale], Ships)

\* C6: gold is conserved by ship activity: the sum of gold over all cities and all
\* ships is the same before and after any Ship.step().
C6_GoldConserved ==
    [][(\E i \in Ships : ShipTurn(i)) => TotalGold' = TotalGold]_vars

\* C7: cargo is conserved by ship activity: for every resource, the total held in all
\* cities' stocks and all ships' holds is unchanged by any Ship.step().
C7_CargoConserved ==
    [][(\E i \in Ships : ShipTurn(i)) => \A r \in Resources : TotalStock(r)' = TotalStock(r)]_vars

\* an agenda-less ship with one stop besides its home
TwoCityShip(i) ==
    /\ Len(ships[i].route) = 2
    /\ \A n \in CityNames : ~ships[i].agenda[n].present

\* C8: round trip of an agenda-less ship between two cities: after the home arrival
\* the ship's cargo and gold are zero, and for every resource the owner's stock change
\* made by the ship over the trip is minus the amount loaded out plus what came back,
\* what came back being loaded out - sold at the destination + bought at the destination.
C8_RoundTripBalance ==
    \A i \in Ships :
        TwoCityShip(i) /\ log[i].home_arrivals >= 1 =>
            /\ ships[i].cargo = NoCargo
            /\ ships[i].gold = 0
            /\ \A r \in Resources :
                  log[i].owner_change[r] =
                      (0 - log[i].loaded_out[r]
                       + (log[i].loaded_out[r] - log[i].sold[r] + log[i].bought[r])) * TonScale

\* C9: arrive-home credits everything to the owner: in the step() that handles a home
\* arrival the owner's stock of each resource grows by exactly the ship's cargo of it,
\* the owner's gold by exactly the gold the ship carried (the owner's purchase of
\* information from its own ship nets to zero), and the ship ends with no cargo and no gold.
C9_ArriveHomeCredits ==
    [][\A i \in Ships :
          ShipTurn(i) /\ ships'[i].state = ARRIVED_AT_PORT =>
              LET home == ships[i].start
              IN  /\ \A r \in Resources :
                        cities'[home].stock[r] = cities[home].stock[r] + ships[i].cargo[r] * TonScale
                  /\ cities'[home].gold = cities[home].gold + ships[i].gold
                  /\ ships'[i].cargo = NoCargo
                  /\ ships'[i].gold = 0
                  /\ \A n \in CityNames \ {home} : cities'[n] = cities[n]]_vars

\* a ship has just come home with cargo and gold aboard, its owner able to pay for facts
C9_Witness ==
    \E i \in Ships :
        /\ log[i].home_arrivals = 1
        /\ log[i].trace = <<AT_SEA, ARRIVED_AT_PORT, ARRIVED_AT_PORT, ARRIVED_AT_PORT>>
        /\ log[i].brought_home.gold > 0
        /\ log[i].brought_home.cargo["food"] > 0
        /\ log[i].brought_home.cargo["goods"] > 0
        /\ cities[ships[i].start].gold >= CITY_INFORMATION_PRICE_IN_GOLD
        /\ cities[ships[i].start].information # <<>>

\* C10: when a ship that visited a destination city D has come home and step() has
\* handled the home arrival, the owner, if its gold covers the fee, holds an entry for
\* D in its information, equal to the ship's snapshot of D.
C10_OwnerLearnsDestination ==
    \A i \in Ships :
        /\ log[i].home_arrivals >= 1
        /\ log[i].visited # Unset
        /\ cities[ships[i].start].gold >= CITY_INFORMATION_PRICE_IN_GOLD
        => LET info == cities[ships[i].start].information
               k == InfoIndex(info, log[i].visited.name)
           IN  k > 0 /\ info[k] = log[i].visited

\* C11: when the arrival of a ship at a stop other than its home is handled, the
\* destination buys the ship's knowledge of its owner: if the destination's gold covers
\* the fee it then holds an entry for the owner city, and the gold it pays for
\* information is exactly the gold credited to the ship.
C11_DestinationBuysOwnerInfo ==
    \A i \in Ships :
        log[i].info_sale.made =>
            /\ log[i].info_sale.owner = ships[i].start
            /\ log[i].info_sale.destination_gold >= CITY_INFORMATION_PRICE_IN_GOLD
                  => log[i].info_sale.owner_known
            /\ log[i].info_sale.destination_paid = log[i].info_sale.ship_received
            /\ log[i].info_sale.destination_paid >= 0

\* a destination that could pay has bought the owner's entry and the ship got the fee
C11_Witness ==
    \E i \in Ships :
        /\ log[i].info_sale.made
        /\ log[i].info_sale.destination_paid >= CITY_INFORMATION_PRICE_IN_GOLD
        /\ log[i].info_sale.ship_received >= CITY_INFORMATION_PRICE_IN_GOLD
        /\ log[i].info_sale.owner_known
        /\ InfoIndex(cities[log[i].info_sale.destination].information, ships[i].start) > 0

\* C18: after every City.step() the city's recency counter is exactly one higher than
\* before and its per-step cache is empty: the counter equals the number of steps the
\* city has made, and no city holds a cache between steps, so every ship's step reads
\* live city values.
C18_RecencyCountsStepsCacheEmpty ==
    \A n \in CityNames :
        /\ cities[n].recency_in_iterations = calls.cities[n]
        /\ cities[n].cache = EmptyCache

\* a ship is about to step after every city has stepped at least twice
C18_Witness ==
    /\ pc = 1
    /\ \A n \in CityNames : calls.cities[n] >= 2
    /\ \E i \in Ships : ships[i].state = ARRIVED_AT_PORT

\* the snapshots a ship holds
Snapshots(ship) == {ship.owner_info, ship.destination_info} \ {Unset}

\* C25: snapshots are independent value copies: once a ship holds a snapshot of a city
\* (owner_info, destination_info), no later change of the live city changes what is
\* observable through the snapshot, its information map included: across every step
\* that leaves the ship untouched, the information read through each of its snapshots
\* stays what it was.
C25_SnapshotsAreIndependent ==
    [][\A i \in 1..NShips :
          ships'[i] = ships[i] =>
              \A snap \in Snapshots(ships[i]) :
                  cities'[snap.name].information = cities[snap.name].information]_vars

\* the city a ship lies at, if any
PortsAt(location) == {n \in CityNames : cities[n].location = location}

\* C26: a Ship.step() changes the state (stock, gold, information) of no city other than
\* the city at whose location the ship is docked during that step.
C26_ShipTouchesOnlyItsPort ==
    [][\A i \in 1..NShips :
          pc = i /\ pc' = i + 1 =>
              \A n \in CityNames :
                  cities'[n] # cities[n] => n \in PortsAt(ships'[i].location)]_vars

\* the world after ship i has made its step in it
WorldAfterStep(world, i, rate, percent) ==
    LET st == ship_step([cities |-> world.cities, ship |-> world.ships[i]], rate, percent)
    IN  [cities |-> st.cities, ships |-> [world.ships EXCEPT ![i] = st.ship]]

\* C27: docking at one city is the only source of order dependence between ships: with
\* the same random draws per ship, stepping the two ships in either order within one
\* iteration leaves all ships and cities in the same state whenever the two ships are
\* not docked at the same city in that iteration.
C27_OrderOnlyMattersInOnePort ==
    pc = 1 /\ iteration < MaxIter =>
        \A rate1 \in MovableCargoDraws, rate2 \in MovableCargoDraws,
           percent1 \in RandomDraws, percent2 \in RandomDraws :
            \A first \in {WorldAfterStep(WorldAfterStep([cities |-> cities, ships |-> ships],
                                                        1, rate1, percent1), 2, rate2, percent2)} :
            \A second \in {WorldAfterStep(WorldAfterStep([cities |-> cities, ships |-> ships],
                                                         2, rate2, percent2), 1, rate1, percent1)} :
                first.ships[1].location # first.ships[2].location
                \/ PortsAt(first.ships[1].location) = {}
                    => first = second

(***************************************************************************)
(* City.buy_city_info on its own: the city A buys from a source, twice in   *)
(* a row.  The source is a snapshot of B, whose information is B's, or, as  *)
(* at a home arrival, a snapshot of A itself, whose information is A's.    *)
(* cities holds the cities, log the source passed and the calls made, pc   *)
(* the number of calls made.                                               *)
(***************************************************************************)
\* the highest recency of a fact drawn
MaxRecency == 2
\* the gold of the buyer, in gold
BuyerGolds == {0, 99, 100, 250, 1000}

\* the snapshot of the city name taken when its recency was the given one
Fact(name, recency) ==
    Copy([NewCity(name, <<0, 0>>, 100, 10 * recency, 10 + recency, 0, 0, 0)
             EXCEPT !.recency_in_iterations = recency])

\* the information dicts over names[1..]: known[k] is the recency of the entry for
\* names[k], or -1 for no entry
InfoDict(names, known) ==
    LET kept == SelectSeq([k \in 1..Len(names) |-> k], LAMBDA k : known[k] >= 0)
    IN  [j \in 1..Len(kept) |-> Fact(names[kept[j]], known[kept[j]])]

InfoDicts(names) == {InfoDict(names, known) : known \in [1..Len(names) -> (0 - 1)..MaxRecency]}

InfoInit ==
    /\ \E gold \in BuyerGolds, buyerInfo \in InfoDicts(<<"B", "C">>), self \in BOOLEAN :
       \E sourceRecency \in IF self THEN {MaxRecency} ELSE 0..MaxRecency :
       \E sourceInfo \in IF self THEN {<<>>} ELSE InfoDicts(<<"B", "C", "A">>) :
          /\ cities = [n \in CityNames |->
                         IF n = "A"
                         THEN [NewCity("A", <<0, 0>>, 100, gold, 10, 0, 0, 0)
                                  EXCEPT !.information = buyerInfo,
                                         !.recency_in_iterations = MaxRecency]
                         ELSE IF n = "B"
                         THEN [NewCity("B", <<4, 0>>, 100, 0, 10, 0, 0, 0)
                                  EXCEPT !.information = sourceInfo,
                                         !.recency_in_iterations = MaxRecency]
                         ELSE NewCity("C", <<4, 3>>, 100, 0, 10, 0, 0, 0)]
          /\ log = [source |-> Fact(IF self THEN "A" ELSE "B", sourceRecency), made |-> <<>>]
    /\ ships = <<>>
    /\ iteration = 0
    /\ pc = 0
    /\ calls = [ships |-> <<>>, cities |-> [n \in CityNames |-> 0]]

\* the k-th call of cities["A"].buy_city_info(source)
BuyInfoCall(k) ==
    /\ pc = k - 1
    /\ LET buyer == cities["A"]
           sourceInformation == cities[log.source.name].information
           bought == buy_city_info(buyer, log.source, sourceInformation)
       IN  /\ cities' = [cities EXCEPT !["A"] = bought.city]
           /\ log' = [log EXCEPT !.made =
                         Append(@, [before |-> buyer,
                                    infos |-> CityInfos(log.source, sourceInformation),
                                    after |-> bought.city,
                                    returned |-> bought.price_in_gold])]
    /\ pc' = k
    /\ UNCHANGED <<ships, iteration, calls>>

BuyInfoFirst == BuyInfoCall(1)
BuyInfoAgain == BuyInfoCall(2)

InfoNext == BuyInfoFirst \/ BuyInfoAgain

InfoSpec == InfoInit /\ [][InfoNext]_vars

\* the calls of buy_city_info made so far
Made == 1..Len(log.made)

\* the entry of the city for name, or Unset when it has none
Entry(city, name) ==
    IF InfoIndex(city.information, name) > 0
    THEN city.information[InfoIndex(city.information, name)]
    ELSE Unset

\* the candidate x of the call was unknown to the buyer or newer than its copy
Qualifies(call, x) ==
    \/ Entry(call.before, x.name) = Unset
    \/ x.recency_in_iterations > Entry(call.before, x.name).recency_in_iterations

\* the priority of the candidate x: unknown first, then the larger recency gap
Priority(call, x) ==
    IF Entry(call.before, x.name) = Unset THEN InfPriority
    ELSE x.recency_in_iterations - Entry(call.before, x.name).recency_in_iterations

\* the call stored the candidate x
Acquired(call, x) ==
    /\ Entry(call.after, x.name) = x
    /\ Entry(call.before, x.name) # x

Candidates(call) == SeqToSet(call.infos)
AcquiredFacts(call) == {x \in Candidates(call) : Acquired(call, x)}
QualifyingFacts(call) == {x \in Candidates(call) : Qualifies(call, x)}

\* C12: buy_city_info never drives the buyer's gold negative: a buyer with non-negative
\* gold has non-negative gold after the call, and the acquisition stops as soon as the
\* buyer cannot afford the next fact (it acquires as many qualifying facts as its gold
\* pays for, and no more).
C12_NeverIntoDebt ==
    \A k \in Made :
        LET call == log.made[k]
        IN  call.before.gold >= 0 =>
                /\ call.after.gold >= 0
                /\ Cardinality(AcquiredFacts(call)) =
                       Min(Cardinality(QualifyingFacts(call)),
                           call.before.gold \div CITY_INFORMATION_PRICE_IN_GOLD)
                /\ call.after.gold =
                       call.before.gold - CITY_INFORMATION_PRICE_IN_GOLD * Cardinality(AcquiredFacts(call))

\* a buyer bought what it could pay for and had to leave a qualifying fact
C12_Witness ==
    \E k \in Made :
        /\ log.made[k].before.gold = 250 * GoldScale
        /\ log.made[k].after.gold = 50 * GoldScale
        /\ Cardinality(QualifyingFacts(log.made[k])) = 3

\* C13: buy_city_info is idempotent once caught up: a second call with the same source,
\* nothing having changed in between, returns zero and leaves the buyer's gold and
\* information unchanged.
C13_SecondCallIsFree ==
    Len(log.made) = 2 =>
        /\ log.made[2].returned = 0
        /\ log.made[2].after = log.made[2].before
        /\ log.made[2].before = log.made[1].after

\* the first call bought two facts, the second was made with gold left for another
C13_Witness ==
    /\ Len(log.made) = 2
    /\ log.made[1].returned = 2 * CITY_INFORMATION_PRICE_IN_GOLD
    /\ log.made[2].before.gold >= CITY_INFORMATION_PRICE_IN_GOLD
    /\ Len(log.made[2].infos) = 2

\* C14: buy_city_info stores only facts that were unknown to the buyer or whose
\* recency is strictly greater than that of the buyer's copy; every other entry is left
\* as it was; the amount returned is the fee times the number of facts stored and is
\* the decrease of the buyer's gold.
C14_OnlyUnknownOrNewer ==
    \A k \in Made :
        LET call == log.made[k]
            changed == {n \in CityNames : Entry(call.after, n) # Entry(call.before, n)}
        IN  /\ \A n \in changed :
                  \E x \in Candidates(call) :
                      /\ x.name = n
                      /\ Qualifies(call, x)
                      /\ Entry(call.after, n) = x
            /\ \A j \in 1..Len(call.before.information) :
                  \E i \in 1..Len(call.after.information) :
                      call.after.information[i].name = call.before.information[j].name
            /\ call.returned = CITY_INFORMATION_PRICE_IN_GOLD * Cardinality(changed)
            /\ call.before.gold - call.after.gold = call.returned

\* one call took a new fact, replaced an older copy, and passed over a stale candidate
C14_Witness ==
    \E k \in Made :
        LET call == log.made[k]
        IN  /\ call.returned = 2 * CITY_INFORMATION_PRICE_IN_GOLD
            /\ \E x \in Candidates(call) : Acquired(call, x) /\ Entry(call.before, x.name) = Unset
            /\ \E x \in Candidates(call) : Acquired(call, x) /\ Entry(call.before, x.name) # Unset
            /\ call.before.gold >= 3 * CITY_INFORMATION_PRICE_IN_GOLD
            /\ \E x \in Candidates(call) : ~Qualifies(call, x)

\* C15: the source itself is always a candidate of buy_city_info(source): a buyer that
\* can pay and has no entry, or an older one, for the source's name holds after the call
\* an entry equal to the source as passed, whatever the source's own information holds.
C15_SourceItselfIsStored ==
    Len(log.made) >= 1 =>
        LET call == log.made[1]
            had == Entry(call.before, log.source.name)
        IN  /\ call.before.gold >= CITY_INFORMATION_PRICE_IN_GOLD * Len(call.infos)
            /\ had = Unset \/ had.recency_in_iterations < log.source.recency_in_iterations
            => Entry(call.after, log.source.name) = log.source

\* C16: buy_city_info acquires facts in descending priority (unknown first, then the
\* largest recency gap): no qualifying fact left unacquired has a strictly higher
\* priority than a fact that was acquired.
C16_DescendingPriority ==
    \A k \in Made :
        LET call == log.made[k]
        IN  \A x, y \in Candidates(call) :
                Acquired(call, x) /\ Qualifies(call, y) /\ ~Acquired(call, y)
                    => Priority(call, y) <= Priority(call, x)

\* gold for two facts and three on offer: the two unknown ones were taken and the
\* merely outdated one was left
C16_Witness ==
    \E k \in Made :
        LET call == log.made[k]
        IN  /\ call.before.gold = 250 * GoldScale
            /\ Cardinality(AcquiredFacts(call)) = 2
            /\ \A x \in AcquiredFacts(call) : Priority(call, x) = InfPriority
            /\ \E y \in QualifyingFacts(call) :
                  ~Acquired(call, y) /\ Priority(call, y) = MaxRecency

(***************************************************************************)
(* The derived values of one city on their own: a city A is built with any  *)
(* population, gold and stock, zero and negative stock included, and is     *)
(* asked for a price, before or after freeze() has cached its capacity and  *)
(* population.  log holds the queries made.                                 *)
(***************************************************************************)
\* base_population, in persons
CityBasePopulations == {10, 50, 1000}
\* gold
CityGolds == {0, 500}
\* stock in 1/TonScale ton: negative, none, a kilogram, tons
CityFoods == {0 - 5000, 0, 20000}
CityGoods == {0 - 1000, 0, 50000}
CityLuxuries == {0, 1, 1000}

CityInit ==
    /\ \E bp \in CityBasePopulations, gold \in CityGolds, food \in CityFoods,
          goods \in CityGoods, luxuries \in CityLuxuries :
          cities = [n \in CityNames |->
                      IF n = "A"
                      THEN [NewCity("A", <<0, 0>>, bp, gold, 0, 0, 0, 0)
                               EXCEPT !.stock = [food |-> food, goods |-> goods,
                                                 luxuries |-> luxuries, cannons |-> 0]]
                      ELSE IF n = "B" THEN NewCity("B", <<4, 0>>, 100, 0, 10, 0, 0, 0)
                      ELSE NewCity("C", <<4, 3>>, 100, 0, 10, 0, 0, 0)]
    /\ ships = <<>>
    /\ iteration = 0
    /\ pc = 0
    /\ log = [priced |-> <<>>]
    /\ calls = [ships |-> <<>>, cities |-> [n \in CityNames |-> 0]]

\* cities["A"].freeze()
FreezeCall ==
    /\ ~cities["A"].cache.frozen
    /\ cities' = [cities EXCEPT !["A"] = freeze(@)]
    /\ UNCHANGED <<ships, iteration, pc, log, calls>>

\* cities["A"].price(r), with the demand and the supply it compares
PriceCall(r) ==
    /\ pc = 0
    /\ log' = [log EXCEPT !.priced =
                  Append(@, [resource |-> r, demand |-> demand(cities["A"], r),
                             supply |-> supply(cities["A"], r),
                             price |-> price(cities["A"], r)])]
    /\ pc' = 1
    /\ UNCHANGED <<cities, ships, iteration, calls>>

CityNext ==
    \/ FreezeCall
    \/ \E r \in Resources : PriceCall(r)

CitySpec == CityInit /\ [][CityNext]_vars

\* C17: for every city state, with zero and negative stock, price(r) lies in
\* [price_min, price_max]; it is the floor whenever demand(r) <= 0 and the ceiling
\* whenever demand(r) > 0 and supply(r) <= 0; the division is only made with a
\* positive supply.
C17_PriceWithinLimits ==
    \A k \in 1..Len(log.priced) :
        LET q == log.priced[k]
        IN  /\ q.price >= PriceMin
            /\ q.price <= PriceMax
            /\ q.demand <= 0 => q.price = PriceMin
            /\ q.demand > 0 /\ q.supply <= 0 => q.price = PriceMax

\* no food in stock and a positive population: the price of food is the ceiling
C17_Witness ==
    \E k \in 1..Len(log.priced) :
        /\ log.priced[k].resource = "food"
        /\ log.priced[k].supply = 0
        /\ log.priced[k].demand > 0
        /\ log.priced[k].price = PriceMax
        /\ cities["A"].stock["goods"] < 0

\* C20 (as claimed): for every city with positive base_population and positive
\* capacity, population lies in (0, capacity], also when base_population is larger
\* than capacity.
C20_PopulationWithinCapacity ==
    LET c == cities["A"]
    IN  c.base_population > 0 /\ capacity(c) > 0 =>
            population(c) > 0 /\ population(c) <= capacity(c)

\* C20 (amended): for every city with positive base_population and positive capacity,
\* population is positive; it is at most capacity when base_population is at most
\* capacity, and at least capacity when base_population is larger than capacity.
C20_PopulationBetweenCapacityAndBase ==
    LET c == cities["A"]
    IN  c.base_population > 0 /\ capacity(c) > 0 =>
            /\ population(c) > 0
            /\ c.base_population <= capacity(c) => population(c) <= capacity(c)
            /\ c.base_population > capacity(c) => population(c) >= capacity(c)

\* freeze() cached a population above the capacity of a city built overcrowded
C20_Witness ==
    LET c == cities["A"]
    IN  /\ c.cache.frozen
        /\ c.cache.capacity > 0
        /\ c.base_population > c.cache.capacity
        /\ c.cache.population > c.cache.capacity

(***************************************************************************)
(* The simulation from worlds whose stocks and gold are not negative but    *)
(* may be nothing at all: the cities and ships of Init, with C built either *)
(* stocked or with no gold and no stock.                                    *)
(***************************************************************************)
WorldInit ==
    /\ \E goldB \in {0, 1000}, barrenC \in BOOLEAN :
          cities = [n \in CityNames |->
                      IF n = "A" THEN NewCity("A", <<0, 0>>, 1000, 500, 100, 50, 20, 5)
                      ELSE IF n = "B" THEN NewCity("B", <<4, 0>>, 200, goldB, 80, 10, 0, 0)
                      ELSE IF barrenC THEN NewCity("C", <<4, 3>>, 50, 0, 0, 0, 0, 0)
                      ELSE NewCity("C", <<4, 3>>, 50, 1000, 20, 100, 0, 2)]
    /\ \E agenda2 \in Agendas :
          ships = << NewShip("Le Vengeur", "SLOOP", "A", <<0, 0>>, <<"B">>, [n \in CityNames |-> NoOrders]),
                     NewShip("La Sirene", "BRIGANTINE", "C", <<4, 3>>, <<"B", "A">>, agenda2) >>
    /\ iteration = 0
    /\ pc = 1
    /\ log = [i \in 1..2 |-> NoLog]
    /\ calls = [ships |-> [i \in 1..2 |-> 0], cities |-> [n \in CityNames |-> 0]]

WorldSpec == WorldInit /\ [][Next]_vars

\* C19: in every state the simulation reaches from a world with non-negative stocks and
\* gold, every city has capacity >= base_capacity > 0.
C19_CapacityAtLeastBase ==
    \A n \in CityNames :
        /\ base_capacity(cities[n]) > 0
        /\ capacity(cities[n]) >= base_capacity(cities[n])

(***************************************************************************)
(* The trading methods of a ship on their own: a ship of home A lies in     *)
(* port at B, the first stop of its route B, C, A, with some cargo, some    *)
(* gold and an agenda for B, and one of _sell_per_agenda,                   *)
(* _sell_cargo_at_destination and _buy_per_agenda is called.  log holds the *)
(* method called and the state after each pass of its loop: steps[1] is the *)
(* state at the call, steps[k + 1] the state after the k-th order.          *)
(***************************************************************************)
\* the "sell" orders of the agenda for B, in dict order
SellOrders ==
    { <<Order("food", 0, TRUE)>>,
      <<Order("food", 6, FALSE)>>,
      <<Order("food", 6, FALSE), Order("goods", 0, TRUE)>>,
      <<Order("luxuries", 0, TRUE), Order("goods", 0, FALSE)>>,
      <<Order("food", 0 - 2, FALSE)>> }

\* the "buy" orders of the agenda for B, in dict order
BuyOrders ==
    { <<Order("goods", 10, FALSE)>>,
      <<Order("goods", 0, TRUE)>>,
      <<Order("food", 5, FALSE), Order("goods", 20, FALSE)>>,
      <<Order("goods", 0 - 3, FALSE)>> }

\* what the ship carries
TradeCargoes ==
    { [food |-> 10, goods |-> 0, luxuries |-> 0, cannons |-> 0],
      [food |-> 10, goods |-> 30, luxuries |-> 0, cannons |-> 0],
      [food |-> 0, goods |-> 12, luxuries |-> 0, cannons |-> 3] }

\* gold, in gold
TradeShipGolds == {0, 20, 1000}
TradeCityGolds == {0, 5, 1000}
\* goods in stock at B and at C, in tons
TradeGoods == {5, 400}

TradeInit ==
    /\ \E goldB \in TradeCityGolds, goodsB \in TradeGoods, goodsC \in TradeGoods :
          cities = [n \in CityNames |->
                      IF n = "A" THEN NewCity("A", <<0, 0>>, 1000, 500, 100, 50, 20, 5)
                      ELSE IF n = "B" THEN NewCity("B", <<4, 0>>, 200, goldB, 80, goodsB, 0, 0)
                      ELSE NewCity("C", <<4, 3>>, 200, 100, 80, goodsC, 0, 0)]
    /\ \E sell \in SellOrders, buy \in BuyOrders, cargo \in TradeCargoes, gold \in TradeShipGolds :
          ships = << [NewShip("Le Vengeur", "SLOOP", "A", <<4, 0>>, <<"B", "C">>,
                              [n \in CityNames |->
                                  IF n = "B"
                                  THEN [present |-> TRUE, hasSell |-> TRUE, sell |-> sell,
                                        hasBuy |-> TRUE, buy |-> buy]
                                  ELSE NoOrders])
                         EXCEPT !.state = ARRIVED_AT_PORT, !.cargo = cargo, !.gold = gold * GoldScale,
                                !.owner_info = Copy(cities["A"]),
                                !.destination_info = Copy(cities["B"])] >>
    /\ iteration = 0
    /\ pc = 0
    /\ log = [op |-> "", orders |-> <<>>, steps |-> <<>>]
    /\ calls = [ships |-> <<0>>, cities |-> [n \in CityNames |-> 0]]

\* the state the methods of the ship work on
TradeState == [cities |-> cities, ship |-> ships[1]]

\* the call leaves the state after, and the log holds its passes
TradeCall(op, after, orders, steps) ==
    /\ pc = 0
    /\ cities' = after.cities
    /\ ships' = <<after.ship>>
    /\ log' = [op |-> op, orders |-> orders, steps |-> steps]
    /\ pc' = 1
    /\ UNCHANGED <<iteration, calls>>

\* ship._sell_per_agenda("B")
SellPerAgendaCall ==
    LET orders == ships[1].agenda["B"].sell
    IN  TradeCall("sell_per_agenda", sell_per_agenda(TradeState, "B"), orders,
                  [k \in 1..(Len(orders) + 1) |-> AgendaSellLoop(TradeState, SubSeq(orders, 1, k - 1), 1)])

\* ship._sell_cargo_at_destination()
SellCargoCall ==
    LET order == get_resource_names_ordered_by_margin(TradeState)
    IN  TradeCall("sell_cargo_at_destination", sell_cargo_at_destination(TradeState),
                  [k \in 1..Len(order) |-> Order(order[k].v, 0, TRUE)],
                  [k \in 1..(Len(order) + 1) |-> SellLoop(TradeState, SubSeq(order, 1, k - 1), 1)])

\* ship._buy_per_agenda("B")
BuyPerAgendaCall ==
    LET orders == ships[1].agenda["B"].buy
    IN  TradeCall("buy_per_agenda", buy_per_agenda(TradeState, "B"), orders,
                  [k \in 1..(Len(orders) + 1) |-> AgendaBuyLoop(TradeState, SubSeq(orders, 1, k - 1), 1)])

TradeNext == SellPerAgendaCall \/ SellCargoCall \/ BuyPerAgendaCall

TradeSpec == TradeInit /\ [][TradeNext]_vars

\* the passes of the call logged
Passes == 1..Len(log.orders)

\* the passes logged end in the state the call left
PassesComplete == log.steps[Len(log.steps)] = TradeState

\* what pass k sold of its resource: the tons, the price they were sold at, and whether
\* cargo, stock and gold moved by exactly that much and nothing else moved
Sale(k) ==
    LET b == log.steps[k]
        a == log.steps[k + 1]
        r == log.orders[k].resource
        dest == b.ship.destination
        sold == b.ship.cargo[r] - a.ship.cargo[r]
        p == price(b.cities[dest], r)
    IN  [resource |-> r, sold |-> sold, price |-> p, carried |-> b.ship.cargo[r],
         destination_gold |-> b.cities[dest].gold,
         exact |->
             /\ a.ship.cargo = [b.ship.cargo EXCEPT ![r] = @ - sold]
             /\ a.cities[dest].stock = [b.cities[dest].stock EXCEPT ![r] = @ + sold * TonScale]
             /\ a.ship.gold = b.ship.gold + sold * p
             /\ a.cities[dest].gold = b.cities[dest].gold - sold * p
             /\ \A n \in CityNames \ {dest} : a.cities[n] = b.cities[n]]

\* C21: an agenda sell of a resource with target t (or all): the amount sold is >= 0, at
\* most the carried amount, at most t when a target is given, and worth at most the
\* destination's gold at its current price; the ship's cargo falls and the destination's
\* stock rises by exactly the amount sold, and the ship's gold rises and the
\* destination's gold falls by exactly the amount sold times the price.
C21_AgendaSellBounded ==
    log.op = "sell_per_agenda" =>
        /\ PassesComplete
        /\ \A k \in Passes :
            log.orders[k].none \/ log.orders[k].amount >= 0 =>
                /\ Sale(k).sold >= 0
                /\ Sale(k).sold <= Sale(k).carried
                /\ ~log.orders[k].none => Sale(k).sold <= log.orders[k].amount
                /\ Sale(k).sold * Sale(k).price <= Sale(k).destination_gold
                /\ Sale(k).exact

\* "all" of the food was to be sold and the destination's gold paid for a part only
C21_Witness ==
    /\ log.op = "sell_per_agenda"
    /\ \E k \in Passes :
          /\ log.orders[k].none
          /\ Sale(k).sold > 0
          /\ Sale(k).sold < Sale(k).carried
          /\ (Sale(k).sold + 1) * Sale(k).price > Sale(k).destination_gold

\* what pass k bought of its resource: the tons, what was carried before and after, and
\* whether this stop's price is the least among this stop and the stops still to come
Purchase(k) ==
    LET b == log.steps[k]
        a == log.steps[k + 1]
        r == log.orders[k].resource
        dest == b.ship.destination
        ahead == SubSeq(b.ship.route, b.ship.current_stop_index + 2, Len(b.ship.route))
    IN  [resource |-> r, bought |-> a.ship.cargo[r] - b.ship.cargo[r],
         carried |-> b.ship.cargo[r], carried_after |-> a.ship.cargo[r],
         cheapest |-> \A j \in 1..Len(ahead) :
                          price(b.cities[dest], r) <= price(b.cities[ahead[j]], r),
         tie |-> \E j \in 1..Len(ahead) :
                     price(b.cities[dest], r) = price(b.cities[ahead[j]], r)]

\* C22: an agenda buy of a resource at a stop buys a positive amount only if this stop's
\* current price is the least over this stop and all route stops still to come (a tie
\* buys here); at a stop that is not the cheapest it buys nothing; and it never raises
\* the carried amount of the resource above the agenda's target.
C22_AgendaBuyOnlyAtCheapest ==
    log.op = "buy_per_agenda" =>
        /\ PassesComplete
        /\ \A k \in Passes :
              /\ Purchase(k).bought >= 0
              /\ Purchase(k).bought > 0 => Purchase(k).cheapest
              /\ ~Purchase(k).cheapest => log.steps[k + 1] = log.steps[k]
              /\ ~log.orders[k].none =>
                     Purchase(k).carried_after <= Max(Purchase(k).carried, log.orders[k].amount)

\* goods were bought at the cheapest stop up to the target, some being aboard already
C22_Witness ==
    /\ log.op = "buy_per_agenda"
    /\ \E k \in Passes :
          /\ ~log.orders[k].none
          /\ Purchase(k).carried > 0
          /\ Purchase(k).bought > 0
          /\ Purchase(k).carried_after = log.orders[k].amount
          /\ Purchase(k).cheapest

\* C23: a default sell at a stop that is not home: for each resource the amount sold is
\* at most the carried amount and worth at most the destination's remaining gold at the
\* current price; stock moves from ship to destination and gold from destination to
\* ship by exactly matching amounts, so the destination's gold never becomes negative
\* and the ship gains the gold the destination loses.
C23_DefaultSellBounded ==
    log.op = "sell_cargo_at_destination" =>
        /\ PassesComplete
        /\ \A k \in Passes :
              /\ Sale(k).sold >= 0
              /\ Sale(k).sold <= Sale(k).carried
              /\ Sale(k).sold * Sale(k).price <= Sale(k).destination_gold
              /\ Sale(k).exact
              /\ log.steps[k + 1].cities[ships[1].destination].gold >= 0
        /\ ships[1].gold - log.steps[1].ship.gold =
               log.steps[1].cities[ships[1].destination].gold - cities[ships[1].destination].gold

\* two resources were carried and the destination's gold paid for a part of each only
C23_Witness ==
    /\ log.op = "sell_cargo_at_destination"
    /\ \E k, m \in Passes :
          /\ k < m
          /\ Sale(k).sold > 0
          /\ Sale(k).sold < Sale(k).carried
          /\ Sale(m).sold < Sale(m).carried
          /\ (Sale(m).sold + 1) * Sale(m).price > Sale(m).destination_gold

\* C28: a requested negative transfer is rejected, not executed: an agenda sell or buy
\* order with a negative amount moves no cargo and no gold in either direction between
\* ship and city.
C28_NegativeOrderMovesNothing ==
    log.op \in {"sell_per_agenda", "buy_per_agenda"} =>
        \A k \in Passes :
            ~log.orders[k].none /\ log.orders[k].amount < 0 =>
                /\ log.steps[k + 1].ship.cargo = log.steps[k].ship.cargo
                /\ log.steps[k + 1].ship.gold = log.steps[k].ship.gold
                /\ log.steps[k + 1].cities = log.steps[k].cities

(***************************************************************************)
(* Building a ship: Ship(name, ship_type, start, route, agenda) is called   *)
(* with any ship class, one outside the catalogue included, and any route,  *)
(* the empty one included; the ship built makes some steps and is then      *)
(* given a new itinerary.  log holds what was passed and what was raised.   *)
(***************************************************************************)
\* the ship classes passed: the catalogue's and one it does not know
ShipTypesGiven == ShipType \cup {"RAFT"}
\* the routes passed, home A excluded or included
RoutesGiven == {<<>>, <<"B">>, <<"B", "C">>, <<"B", "A">>, <<"C", "B">>}
\* the steps a ship makes before its itinerary is set anew
MaxBuildSteps == 2

BuildInit ==
    /\ cities = [n \in CityNames |->
                   IF n = "A" THEN NewCity("A", <<0, 0>>, 1000, 500, 100, 50, 20, 5)
                   ELSE IF n = "B" THEN NewCity("B", <<4, 0>>, 200, 1000, 80, 10, 0, 0)
                   ELSE NewCity("C", <<4, 3>>, 50, 1000, 20, 100, 0, 2)]
    /\ ships = <<>>
    /\ iteration = 0
    /\ pc = 0
    /\ \E ship_type \in ShipTypesGiven, route \in RoutesGiven :
          log = [ship_type |-> ship_type, route |-> route, agenda |-> [n \in CityNames |-> NoOrders],
                 raised |-> "", index_before |-> 0]
    /\ calls = [ships |-> <<>>, cities |-> [n \in CityNames |-> 0]]

\* Ship("Le Vengeur", ship_type, start=A, route, agenda)
ConstructCall ==
    /\ pc = 0
    /\ ships' = IF InitRaises(log.ship_type, log.route) # "" THEN <<>>
                ELSE <<NewShip("Le Vengeur", log.ship_type, "A", cities["A"].location,
                               log.route, log.agenda)>>
    /\ log' = [log EXCEPT !.raised = InitRaises(log.ship_type, log.route)]
    /\ pc' = 1
    /\ UNCHANGED <<cities, iteration, calls>>

\* ship.step()
BuildStep ==
    /\ pc = 1
    /\ ships # <<>>
    /\ iteration < MaxBuildSteps
    /\ \E rate \in MovableCargoDraws, percent \in RandomDraws :
       \E st \in {ship_step([cities |-> cities, ship |-> ships[1]], rate, percent)} :
          /\ cities' = st.cities
          /\ ships' = <<st.ship>>
    /\ iteration' = iteration + 1
    /\ UNCHANGED <<pc, log, calls>>

\* ship.set_itinerary(start=A, route, agenda)
SetItineraryCall ==
    /\ pc = 1
    /\ ships # <<>>
    /\ \E route \in RoutesGiven, agenda \in Agendas :
          /\ ships' = IF route = <<>> THEN <<[ships[1] EXCEPT !.route = route]>>
                      ELSE <<set_itinerary(ships[1], ships[1].start, route, agenda)>>
          /\ log' = [log EXCEPT !.route = route, !.agenda = agenda,
                                !.raised = IF route = <<>> THEN "IndexError" ELSE "",
                                !.index_before = ships[1].current_stop_index]
    /\ pc' = 2
    /\ UNCHANGED <<cities, iteration, calls>>

BuildNext == ConstructCall \/ BuildStep \/ SetItineraryCall

BuildSpec == BuildInit /\ [][BuildNext]_vars

\* C24: a ship's route always ends back at home: set_itinerary(start, route, agenda),
\* called by the constructor or later, appends the home city when the route passed does
\* not end with it, stores the agenda, resets the route index to 0 and makes route[0] the
\* destination.
C24_RouteEndsAtHome ==
    ships # <<>> /\ log.raised = "" =>
        LET ship == ships[1]
        IN  /\ ship.route[Len(ship.route)] = ship.start
            /\ ship.route = IF log.route[Len(log.route)] = ship.start
                            THEN log.route ELSE Append(log.route, ship.start)
            /\ ship.agenda = log.agenda
            /\ iteration = 0 \/ pc = 2 =>
                   /\ ship.current_stop_index = 0
                   /\ ship.destination = ship.route[1]

\* a ship that had reached its first stop was given the route C, B: it became C, B, A
C24_Witness ==
    /\ pc = 2
    /\ log.raised = ""
    /\ log.index_before = 1
    /\ log.route = <<"C", "B">>
    /\ ships[1].route = <<"C", "B", "A">>
    /\ ships[1].destination = "C"

\* C29: building a ship fails fast on an invalid configuration: with an empty route, or
\* with a ship class the catalogue has no entry for, the constructor raises and yields no
\* ship; every ship class of the catalogue resolves to a spec with positive speed and
\* positive cargo capacity.
C29_ConstructionFailsFast ==
    pc >= 1 =>
        /\ log.ship_type \notin ShipType => ships = <<>> /\ log.raised = "ValueError"
        /\ pc = 1 /\ log.route = <<>> => ships = <<>> /\ log.raised # ""
        /\ ships # <<>> =>
               /\ ships[1].ship_spec = from_type(log.ship_type)
               /\ ships[1].ship_spec.speed > 0
               /\ ships[1].ship_spec.max_cargo_hold_in_tons > 0

\* the constructor was called with a class outside the catalogue and a sound route
C29_Witness ==
    /\ pc = 1
    /\ log.ship_type = "RAFT"
    /\ log.route = <<"B", "C">>
    /\ log.raised = "ValueError"
    /\ ships = <<>>


(***************************************************************************)
(* A step that fails: the world of Init with at least one ship built       *)
(* without an agenda, Ship(name, ship_type, start, route), as the ships of *)
(* tests/test_ship.py are.  Its agenda is None, and the first arrival at a *)
(* stop that is not home raises TypeError at "city_name in self._agenda".  *)
(* Nothing catches it: Simulation.step ends there, pc = 0.                 *)
(***************************************************************************)
\* agenda=None, the default of Ship.__init__: no mapping at all
None == <<>>

\* _handle_arrival reaches line 408 with self._agenda None: TypeError
ArrivalRaises(st) ==
    /\ st.ship.state = ARRIVED_AT_PORT
    /\ ~IsHome(RefreshInfo(st))
    /\ DOMAIN st.ship.agenda = {}

\* what _handle_arrival has done when line 408 raises: snapshots refreshed (390-392),
\* self._sold_cargo reset (406)
ArrivalRaised(st) == [RefreshInfo(st) EXCEPT !.ship.sold_cargo = NoCargo]

\* does ship i's next step() raise
StepRaises(i) == ArrivalRaises(travel([cities |-> cities, ship |-> ships[i]]))

FailInit ==
    /\ \E goldB \in {0, 1000}, goldC \in {0, 1000} :
          cities = [n \in CityNames |->
                      IF n = "A" THEN NewCity("A", <<0, 0>>, 1000, 500, 100, 50, 20, 5)
                      ELSE IF n = "B" THEN NewCity("B", <<4, 0>>, 200, goldB, 80, 10, 0, 0)
                      ELSE NewCity("C", <<4, 3>>, 50, goldC, 20, 100, 0, 2)]
    /\ \E agenda1 \in {None, [n \in CityNames |-> NoOrders]}, agenda2 \in Agendas \cup {None} :
          /\ None \in {agenda1, agenda2}
          /\ ships = << NewShip("Le Vengeur", "SLOOP", "A", <<0, 0>>, <<"B">>, agenda1),
                        NewShip("La Sirene", "BRIGANTINE", "C", <<4, 3>>, <<"B", "A">>, agenda2) >>
    /\ iteration = 0
    /\ pc = 1
    /\ log = [i \in 1..2 |-> NoLog]
    /\ calls = [ships |-> [i \in 1..2 |-> 0], cities |-> [n \in CityNames |-> 0]]

\* ship.step() that returns
ShipStepReturns(i) ==
    /\ ShipTurn(i)
    /\ ~StepRaises(i)
    /\ ShipStep(i)

\* ship.step() that raises in _handle_arrival, after _travel
ShipStepRaises(i) ==
    /\ iteration < MaxIter
    /\ ShipTurn(i)
    /\ StepRaises(i)
    /\ \E st \in {ArrivalRaised(travel([cities |-> cities, ship |-> ships[i]]))} :
          /\ cities' = st.cities
          /\ ships' = [ships EXCEPT ![i] = st.ship]
    /\ calls' = [calls EXCEPT !.ships[i] = @ + 1]
    /\ pc' = 0
    /\ UNCHANGED <<iteration, log>>

FailNext ==
    \/ \E i \in 1..NShips : ShipStepReturns(i)
    \/ \E i \in 1..NShips : ShipStepRaises(i)
    \/ \E j \in 1..NCities : CityStep(j)

FailSpec == FailInit /\ [][FailNext]_vars

\* C30: a step is all-or-nothing: when a Ship.step() fails with an error partway
\* through, the stepped ship and every city are as they were before the step began.
C30_StepIsAllOrNothing ==
    [][pc' = 0 => ships' = ships /\ cities' = cities]_vars

\* the ship with an empty agenda in place of its own
WithEmptyAgenda(ship) == [ship EXCEPT !.agenda = [n \in CityNames |-> NoOrders]]

\* C31: the agenda is optional: a step of a ship built without an agenda does what the
\* step of the same ship with an empty agenda does (default selling, default buying,
\* then WAITING_FOR_DEPARTURE and depart), to the ship and to the cities.
C31_NoAgendaIsEmptyAgenda ==
    [][\A i \in 1..NShips :
          pc = i /\ calls'.ships[i] = calls.ships[i] + 1 /\ DOMAIN ships[i].agenda = {} =>
              \E rate \in MovableCargoDraws, percent \in RandomDraws :
                  \E st \in {ship_step([cities |-> cities, ship |-> WithEmptyAgenda(ships[i])],
                                       rate, percent)} :
                      /\ cities' = st.cities
                      /\ WithEmptyAgenda(ships'[i]) = st.ship]_vars

(***************************************************************************)
(* Further properties of Simulation.step under Spec                        *)
(***************************************************************************)
\* ship i's last step() processed an arrival at a stop that is not its home
ArrivalStepDone(i) ==
    /\ log[i].trace[2] = ARRIVED_AT_PORT
    /\ log[i].trace[3] = WAITING_FOR_DEPARTURE

\* the tons that stop's sale and purchase moved: per resource the absolute change of the cargo
TonsMoved(i) ==
    Abs(log[i].bought["food"] - log[i].sold["food"])
    + Abs(log[i].bought["goods"] - log[i].sold["goods"])
    + Abs(log[i].bought["luxuries"] - log[i].sold["luxuries"])
    + Abs(log[i].bought["cannons"] - log[i].sold["cannons"])

C33_WaitThenDepart ==
    [][\A i \in 1..NShips :
          pc = i /\ pc' = i + 1 =>
              /\ ships'[i].waiting_iterations_remaining >= 0
              /\ ships[i].state = WAITING_FOR_DEPARTURE =>
                    IF ships[i].waiting_iterations_remaining > 0
                    THEN /\ ships'[i].state = WAITING_FOR_DEPARTURE
                         /\ ships'[i].waiting_iterations_remaining
                                = ships[i].waiting_iterations_remaining - 1
                    ELSE ships'[i].state = AT_SEA
              /\ \A arrived \in {travel([cities |-> cities, ship |-> ships[i]])} :
                    ships[i].state = AT_SEA /\ arrived.ship.state = ARRIVED_AT_PORT =>
                        \E rate \in MovableCargoDraws :
                            \E k \in {handle_arrival(arrived, rate).ship.waiting_iterations_remaining} :
                                IF k = 0
                                THEN ships'[i].state = AT_SEA
                                ELSE /\ ships'[i].state = WAITING_FOR_DEPARTURE
                                     /\ ships'[i].waiting_iterations_remaining = k - 1]_vars

\* the same for the stops that are not the ship's home
WaitThenDepartAtStops ==
    [][\A i \in 1..NShips :
          pc = i /\ pc' = i + 1 =>
              /\ ships'[i].waiting_iterations_remaining >= 0
              /\ ships[i].state = WAITING_FOR_DEPARTURE =>
                    IF ships[i].waiting_iterations_remaining > 0
                    THEN /\ ships'[i].state = WAITING_FOR_DEPARTURE
                         /\ ships'[i].waiting_iterations_remaining
                                = ships[i].waiting_iterations_remaining - 1
                    ELSE ships'[i].state = AT_SEA
              /\ \A arrived \in {travel([cities |-> cities, ship |-> ships[i]])} :
                    ships[i].state = AT_SEA /\ arrived.ship.state = ARRIVED_AT_PORT
                    /\ ~IsHome(arrived) =>
                        \E rate \in MovableCargoDraws :
                            \E k \in {handle_arrival(arrived, rate).ship.waiting_iterations_remaining} :
                                IF k = 0
                                THEN ships'[i].state = AT_SEA
                                ELSE /\ ships'[i].state = WAITING_FOR_DEPARTURE
                                     /\ ships'[i].waiting_iterations_remaining = k - 1]_vars

\* the city at position index (counted from 0, as the code does) of the ship's route
RouteEntry(ship, index) == ship.route[index + 1]

\* C34: a ship visits its stops in route order: an arrival is at the route entry of the
\* index; processing an arrival at a stop that is not home advances the index by exactly
\* one and makes the entry at the advanced index the destination; a depart sails to that
\* entry and leaves the index alone; the index is always a valid index of the route.
C34_StopsInRouteOrder ==
    [][\A i \in 1..NShips :
          pc = i /\ pc' = i + 1 =>
              /\ ships'[i].current_stop_index \in 0..(Len(ships'[i].route) - 1)
              /\ ships'[i].destination = RouteEntry(ships'[i], ships'[i].current_stop_index)
              /\ log'[i].trace[2] = ARRIVED_AT_PORT =>
                    /\ ships[i].destination = RouteEntry(ships[i], ships[i].current_stop_index)
                    /\ ships'[i].location = cities[ships[i].destination].location
              /\ ships'[i].current_stop_index =
                    IF log'[i].trace[2] = ARRIVED_AT_PORT /\ log'[i].trace[3] = WAITING_FOR_DEPARTURE
                    THEN ships[i].current_stop_index + 1
                    ELSE ships[i].current_stop_index
              /\ log'[i].trace[3] = WAITING_FOR_DEPARTURE /\ log'[i].trace[4] = AT_SEA
                    /\ log'[i].trace[2] # ARRIVED_AT_PORT =>
                        ships'[i].destination = ships[i].destination]_vars

\* the second ship has called at B and at A, in the order of its route, and sails for home
C34_Witness ==
    /\ ships[2].route = <<"B", "A", "C">>
    /\ ships[2].current_stop_index = 2
    /\ ships[2].destination = "C"
    /\ ships[2].state = AT_SEA

(***************************************************************************)
(* Sailing on its own: one ship of home A whose only stop B lies at a      *)
(* drawn place, on an axis of A (any speed) or along the 3-4-5 direction   *)
(* (speed 5), so that every position on the way is a whole point.  The     *)
(* ship departs and _travel is called until it arrives.  log holds the     *)
(* distance at departure and the number of _travel calls made since.       *)
(***************************************************************************)
SailInit ==
    /\ \E locB \in {<<0, 0>>, <<1, 0>>, <<4, 0>>, <<0, 5>>, <<0, 7>>, <<12, 0>>, <<6, 8>>, <<9, 12>>},
          ship_type \in {"PINNACE", "SLOOP", "BRIGANTINE", "BARQUE", "FLUYT"} :
          /\ locB[1] = 0 \/ locB[2] = 0 \/ from_type(ship_type).speed = 5
          /\ cities = [n \in CityNames |->
                         IF n = "A" THEN NewCity("A", <<0, 0>>, 1000, 500, 100, 50, 20, 5)
                         ELSE IF n = "B" THEN NewCity("B", locB, 200, 1000, 80, 10, 0, 0)
                         ELSE NewCity("C", <<4, 3>>, 50, 0, 20, 100, 0, 2)]
          /\ ships = <<NewShip("Le Vengeur", ship_type, "A", <<0, 0>>, <<"B">>,
                               [n \in CityNames |-> NoOrders])>>
    /\ iteration = 0
    /\ pc = 1
    /\ log = [distance |-> 0, travels |-> 0]
    /\ calls = [ships |-> <<0>>, cities |-> [n \in CityNames |-> 0]]

\* ship._depart()
SailDepartCall ==
    /\ ships[1].state = WAITING_FOR_DEPARTURE
    /\ \E percent \in RandomDraws :
          \E st \in {depart([cities |-> cities, ship |-> ships[1]], percent)} :
              /\ cities' = st.cities
              /\ ships' = <<st.ship>>
              /\ log' = [distance |-> ISqrt(DistanceSquared(st.ship.location,
                                                            st.cities[st.ship.destination].location)),
                         travels |-> 0]
    /\ UNCHANGED <<iteration, pc, calls>>

\* ship._travel()
SailTravelCall ==
    /\ ships[1].state = AT_SEA
    /\ \E st \in {travel([cities |-> cities, ship |-> ships[1]])} :
          /\ cities' = st.cities
          /\ ships' = <<st.ship>>
    /\ log' = [log EXCEPT !.travels = @ + 1]
    /\ calls' = [calls EXCEPT !.ships[1] = @ + 1]
    /\ UNCHANGED <<iteration, pc>>

SailNext == SailDepartCall \/ SailTravelCall

SailSpec == SailInit /\ [][SailNext]_vars

\* the straight-line distance from the ship to its destination
DistanceLeft == ISqrt(DistanceSquared(ships[1].location, cities[ships[1].destination].location))

\* C35: a ship at sea always reaches port: a _travel at distance d > speed s leaves the
\* ship AT_SEA at distance exactly d - s; at d <= s it puts the ship at the destination's
\* location in ARRIVED_AT_PORT; a ship that departed at distance d arrives after exactly
\* max(1, ceil(d/s)) travels; iterations_en_route is 0 at departure and counts the travels
\* made since; and no call changes the location of a city.
C35_TravelReachesPort ==
    [][/\ \A n \in CityNames : cities'[n].location = cities[n].location
       /\ ships[1].state = WAITING_FOR_DEPARTURE /\ ships'[1].state = AT_SEA =>
             ships'[1].iterations_en_route = 0
       /\ ships[1].state = AT_SEA =>
             /\ ships'[1].iterations_en_route = ships[1].iterations_en_route + 1
             /\ ships'[1].iterations_en_route = log'.travels
             /\ IF DistanceLeft > ships[1].ship_spec.speed
                THEN /\ ships'[1].state = AT_SEA
                     /\ DistanceLeft' = DistanceLeft - ships[1].ship_spec.speed
                ELSE /\ ships'[1].state = ARRIVED_AT_PORT
                     /\ ships'[1].location = cities[ships[1].destination].location
                     /\ log'.travels = Max(1, CeilDiv(log.distance, ships[1].ship_spec.speed))]_vars

\* a ship of speed 5 that left at distance 15 along the 3-4-5 direction and arrived with
\* its third travel
C35_Witness ==
    /\ ships[1].state = ARRIVED_AT_PORT
    /\ ships[1].ship_spec.speed = 5
    /\ log.distance = 15
    /\ log.travels = 3
    /\ ships[1].location = <<9, 12>>

\* C36: City.step() is consistent within itself: every resource's stock changes by
\* production - demand of the population the city had when the step began, the
\* base_population grows by the population and capacity it had then (whatever the step has
\* done to the food before), and the step changes neither the city's gold nor any other
\* city nor any ship.
C36_CityStepUsesEntryValues ==
    [][\A j \in 1..NCities :
          pc = NShips + j /\ pc' # pc =>
              \E n \in {CityOrder[j]} :
                  /\ \A r \in Resources :
                        cities'[n].stock[r] =
                            cities[n].stock[r] + production(cities[n], r) - demand(cities[n], r)
                  /\ cities'[n].base_population = Reproduce(cities[n]).base_population
                  /\ cities'[n].gold = cities[n].gold
                  /\ \A other \in CityNames \ {n} : cities'[other] = cities[other]
                  /\ ships' = ships]_vars

\* C has made a step that changed its food and its base population
C36_Witness ==
    /\ calls.cities["C"] = 1
    /\ cities["C"].recency_in_iterations = 1
    /\ cities["C"].stock["food"] # 20 * TonScale
    /\ cities["C"].base_population # 50 * PopScale

\* C37: the loading at a departure is a pure transfer from the owner to the ship: for
\* every resource the ship's cargo grows by what the owner's stock falls, so what was in
\* the hold stays there; and the working capital, between 0 and 30% of the owner's gold,
\* leaves the owner and is added to the gold the ship carries.
C37_LoadingIsPureTransfer ==
    [][\A i \in 1..NShips :
          /\ pc = i /\ pc' = i + 1
          /\ log'[i].trace[3] = WAITING_FOR_DEPARTURE /\ log'[i].trace[4] = AT_SEA
          => \E rate \in MovableCargoDraws :
                \E before \in {handle_arrival(travel([cities |-> cities, ship |-> ships[i]]), rate)} :
                \E owner \in {before.cities[ships[i].start]}, ownerAfter \in {cities'[ships[i].start]} :
                    /\ before.ship.state = WAITING_FOR_DEPARTURE
                    /\ before.ship.waiting_iterations_remaining = 0
                    /\ \A r \in Resources :
                          /\ ships'[i].cargo[r] >= before.ship.cargo[r]
                          /\ (ships'[i].cargo[r] - before.ship.cargo[r]) * TonScale
                                = owner.stock[r] - ownerAfter.stock[r]
                    /\ owner.gold - ownerAfter.gold >= 0
                    /\ 10 * (owner.gold - ownerAfter.gold) <= 3 * owner.gold
                    /\ ships'[i].gold = before.ship.gold + (owner.gold - ownerAfter.gold)]_vars

\* ship i, at sea, reaches with its next travel a stop other than home where it sells by margin
SellsByMarginNext(i, arrived) ==
    /\ ships[i].state = AT_SEA
    /\ arrived.ship.state = ARRIVED_AT_PORT
    /\ ~IsHome(arrived)
    /\ ~(ships[i].agenda[ships[i].destination].present /\ ships[i].agenda[ships[i].destination].hasSell)

\* C38: the default sale ranks the resources by the destination's current price minus the
\* owner's price recorded in owner_info at the ship's last departure: the owner prices the
\* sale of an arrival reads are those of the snapshot the ship carried at sea, and the
\* resources are sold in the order of these margins, highest first.
C38_MarginUsesDeparturePrice ==
    \A i \in 1..NShips :
        pc = i /\ iteration < MaxIter =>
            \A arrived \in {travel([cities |-> cities, ship |-> ships[i]])} :
                SellsByMarginNext(i, arrived) =>
                    \A selling \in {RefreshInfo(arrived)} :
                        /\ \A r \in Resources :
                              price(selling.ship.owner_info, r) = price(ships[i].owner_info, r)
                        /\ get_resource_names_ordered_by_margin(selling)
                              = get_resource_names_ordered_by_margin(arrived)

\* what a ship took of resource r out of city n between the states before and after, in
\* 1/1000 ton
Taken(before, after, n, r) == before.cities[n].stock[r] - after.cities[n].stock[r]

\* the amount taken is none or within EXCESS_SUPPLY_FRACTION = 0.8 of the city's surplus
\* of r in the state before, and leaves the stock at or above the demand of that state
WithinSurplus(before, after, n, r) ==
    \E taken \in {Taken(before, after, n, r)}, surplus \in {supply(before.cities[n], r) - demand(before.cities[n], r)} :
        /\ taken >= 0
        /\ 10 * taken <= 8 * Max(0, surplus)
        /\ taken > 0 => after.cities[n].stock[r] >= demand(before.cities[n], r)

\* C39: purchases never deplete a city: what a ship takes out of a city's stock of a
\* resource (the loading from the owner at a departure, each agenda buy at a stop) is at
\* most the city's excess supply, 0.8 of stock minus demand, at that moment; the stock
\* does not fall below the demand, and a city without surplus gives up nothing.
C39_PurchasesWithinExcess ==
    \A i \in 1..NShips :
        pc = i /\ iteration < MaxIter =>
            \A rate \in MovableCargoDraws, percent \in RandomDraws :
                \A arrived \in {travel([cities |-> cities, ship |-> ships[i]])} :
                \A waiting \in {handle_arrival(arrived, rate)} :
                \A sailing \in {depart(waiting, percent)} :
                    /\ \A r \in Resources :
                          WithinSurplus(waiting, sailing, ships[i].start, r)
                    /\ arrived.ship.state = ARRIVED_AT_PORT /\ ~IsHome(arrived)
                       /\ ships[i].agenda[ships[i].destination].present
                       /\ ships[i].agenda[ships[i].destination].hasBuy =>
                          \A orders \in {ships[i].agenda[ships[i].destination].buy} :
                          \A selling \in {ArrivalSell(RefreshInfo(arrived))} :
                          \A k \in 1..Len(orders) :
                              WithinSurplus(AgendaBuyLoop(selling, SubSeq(orders, 1, k - 1), 1),
                                            AgendaBuyLoop(selling, SubSeq(orders, 1, k), 1),
                                            ships[i].destination, orders[k].resource)

\* the second ship has bought food at B by its agenda, has left B, and carries a load
\* from its owner that does not fill its hold
C39_Witness ==
    /\ ships[2].agenda["B"].hasBuy
    /\ log[2].bought["food"] > 0
    /\ ships[2].state = AT_SEA
    /\ ships[2].current_stop_index = 1
    /\ total_cargo_in_tons(ships[2]) > 0
    /\ total_cargo_in_tons(ships[2]) < ships[2].ship_spec.max_cargo_hold_in_tons

\* C40: non-negativity is kept by every sequence of steps: from a world with non-negative
\* city gold and stocks and agendas with non-negative targets, every ship's gold and its
\* cargo of every resource, and every city's gold, are >= 0 in every reachable state.
C40_NothingGoesNegative ==
    /\ \A i \in 1..NShips :
          /\ ships[i].gold >= 0
          /\ \A r \in Resources : ships[i].cargo[r] >= 0
    /\ \A n \in CityNames : cities[n].gold >= 0

\* the first ship brought cargo to B, which had no gold: it sold nothing there, and B's
\* gold is 0, not less
C40_Witness ==
    /\ ArrivalStepDone(1)
    /\ log[1].visited.name = "B"
    /\ log[1].visited.gold = 0
    /\ log[1].loaded_out["food"] > 0
    /\ log[1].sold = NoCargo
    /\ cities["B"].gold = 0
    /\ ships[1].gold >= 0

====
